---- MODULE Spec2Model ----
(***************************************************************************)
(* BrainCanary: the stage controller (StageController), its state machine, *)
(* the SQLite store rows it persists, the traffic router (chooseVersion),  *)
(* the gate evaluator and the part of the score monitor and of the proxy   *)
(* server that drive the controller.                                       *)
(*                                                                         *)
(* Units.  Scores, thresholds, weights and rates are percentages (0.9 is   *)
(* 90), p-values and confidences are per-mille (0.01 is 10), time is in    *)
(* milliseconds of an integer clock `now`.  Stage indexes are 0-based as   *)
(* in the code; Stage(cfg, i) reads cfg.stages[i].  An optional field is a *)
(* set: {} when absent (undefined or null), {v} when it holds v.           *)
(***************************************************************************)
EXTENDS Integers, Sequences, FiniteSets, TLC

VARIABLES
    snapshot,      \* StageController.snapshot (NullSnapshot when null)
    latestScores,  \* StageController.latestScores
    store,         \* SqliteStateStore: the deployments table
    monitor,       \* the ScoreMonitor the server owns and the controller is attached to
    now,           \* the wall clock (Date.now())
    last,          \* record of the most recent handler run: what it applied and emitted
    scoreMonitor,  \* the fields of a ScoreMonitor polling on its own
    requests,      \* the BTQL queries of its polls that are awaiting their response
    traces,        \* the trace rows of the deployment in the backend
    tick,          \* record of the monitor's current tick: its start, what it emitted
    awaiting       \* the handlers of the proxy suspended in an await, with what they hold

monitorVars == <<scoreMonitor, requests, traces, tick>>

vars == <<snapshot, latestScores, store, monitor, now, last, scoreMonitor, requests, traces, tick,
          awaiting>>

----------------------------------------------------------------------------
(* Bounds of the model *)

MaxTime == 1
MaxCanaryRows == 2

----------------------------------------------------------------------------
(* Configurations (already validated by DeploymentConfigSchema) *)

GateNotWorse ==
    [scorer |-> "Q", threshold |-> 50, comparison |-> "not_worse_than_baseline", confidence |-> 950]
GateAbsolute ==
    [scorer |-> "Q", threshold |-> 50, comparison |-> "absolute_only", confidence |-> 950]
GateBetter ==
    [scorer |-> "Q", threshold |-> 50, comparison |-> "better_than_baseline", confidence |-> 950]

\* Scenario S1 of the specification: the last stage is {weight: 100, gates: []}
ConfigS1 ==
    [stages |-> << [weight |-> 5, duration |-> {1}, min_samples |-> 2, gates |-> <<GateNotWorse>>],
                   [weight |-> 100, duration |-> {}, min_samples |-> 30, gates |-> <<>>] >>,
     rollback |-> [on_score_drop |-> 5, on_error_rate |-> 5],
     sticky_key |-> {}]

\* Three stages, every one of them gated
ConfigGated ==
    [stages |-> << [weight |-> 5, duration |-> {}, min_samples |-> 2, gates |-> <<GateNotWorse>>],
                   [weight |-> 50, duration |-> {}, min_samples |-> 2, gates |-> <<GateAbsolute, GateBetter>>],
                   [weight |-> 100, duration |-> {}, min_samples |-> 2, gates |-> <<GateNotWorse>>] >>,
     rollback |-> [on_score_drop |-> 10, on_error_rate |-> 5],
     sticky_key |-> {"user"}]

Configs == <<ConfigS1, ConfigGated>>

Stage(cfg, i) == Configs[cfg].stages[i + 1]
StageCount(cfg) == Len(Configs[cfg].stages)

----------------------------------------------------------------------------
(* Lifecycle states and the transition table *)

States == {"IDLE", "PENDING", "STAGE", "PAUSED", "ROLLING_BACK", "ROLLED_BACK", "PROMOTED"}

ALLOWED_SelfLoopRollingBack ==
    [s \in States |->
        CASE s = "IDLE" -> {"PENDING"}
          [] s = "PENDING" -> {"STAGE", "ROLLING_BACK"}
          [] s = "STAGE" -> {"STAGE", "PAUSED", "ROLLING_BACK", "PROMOTED"}
          [] s = "PAUSED" -> {"STAGE", "ROLLING_BACK"}
          [] s = "ROLLING_BACK" -> {"ROLLING_BACK", "ROLLED_BACK"}
          [] OTHER -> {}]

ALLOWED ==
    [s \in States |->
        CASE s = "IDLE" -> {"PENDING"}
          [] s = "PENDING" -> {"STAGE", "ROLLING_BACK"}
          [] s = "STAGE" -> {"STAGE", "PAUSED", "ROLLING_BACK", "PROMOTED"}
          [] s = "PAUSED" -> {"STAGE", "ROLLING_BACK"}
          [] s = "ROLLING_BACK" -> {"ROLLED_BACK"}
          [] s = "ROLLED_BACK" -> {}
          [] s = "PROMOTED" -> {}]

\* assertTransitionAllowed does not throw
TransitionAllowed(from, to) == to \in ALLOWED[from]

----------------------------------------------------------------------------
(* Snapshots and store rows *)

\* `this.snapshot = null`: no deployment; reported as IDLE
NullSnapshot ==
    [id |-> 0, config |-> 0, state |-> "IDLE", stageIndex |-> 0, stageEnteredAt |-> 0,
     startedAt |-> 0, completedAt |-> {}, finalState |-> {}, pausedStageIndex |-> {},
     canaryWeight |-> 0, reason |-> {}]

HasSnapshot(s) == s.id # 0

\* { ...snapshot, state: to, ...patch }
ApplyPatch(s, to, patch) ==
    [f \in DOMAIN s |->
        IF f \in DOMAIN patch THEN patch[f]
        ELSE IF f = "state" THEN to
        ELSE s[f]]

\* SqliteStateStore.toRow (`?? null` on the optional columns)
ToRow(s) ==
    [id |-> s.id, config_json |-> s.config, state |-> s.state, stage_index |-> s.stageIndex,
     stage_entered_at |-> s.stageEnteredAt, started_at |-> s.startedAt,
     completed_at |-> s.completedAt, final_state |-> s.finalState,
     paused_stage_index |-> s.pausedStageIndex, canary_weight |-> s.canaryWeight,
     reason |-> s.reason]

\* SqliteStateStore.fromRow (a falsy optional column is left out)
FromRow(r) ==
    [id |-> r.id, config |-> r.config_json, state |-> r.state, stageIndex |-> r.stage_index,
     stageEnteredAt |-> r.stage_entered_at, startedAt |-> r.started_at,
     completedAt |-> {t \in r.completed_at : TRUE},
     finalState |-> r.final_state,
     pausedStageIndex |-> r.paused_stage_index, canaryWeight |-> r.canary_weight,
     reason |-> {x \in r.reason : x # ""}]

\* Of the four tables the model keeps `deployments`; state_transitions, score_snapshots
\* and events are append-only and never read back by the controller
EmptyStore == [deployments |-> <<>>]

\* INSERT INTO deployments
CreateDeploymentRow(st, s) == [st EXCEPT !.deployments = Append(@, ToRow(s))]

\* UPDATE deployments SET <eight columns> WHERE id = @id
UpdateDeploymentRow(st, s) ==
    LET new == ToRow(s) IN
    [st EXCEPT !.deployments =
        [k \in DOMAIN @ |->
            IF @[k].id = new.id
            THEN [@[k] EXCEPT !.state = new.state, !.stage_index = new.stage_index,
                              !.stage_entered_at = new.stage_entered_at,
                              !.completed_at = new.completed_at,
                              !.final_state = new.final_state,
                              !.paused_stage_index = new.paused_stage_index,
                              !.canary_weight = new.canary_weight,
                              !.reason = new.reason]
            ELSE @[k]]]

\* INSERT INTO state_transitions: the deployments table is untouched
RecordTransitionRow(st, id, from, to, reason) == st

\* INSERT INTO events: the deployments table is untouched
RecordEventRow(st, id, type) == st

\* SELECT * FROM deployments WHERE id = ?
RowsOf(st, id) == {st.deployments[k] : k \in {j \in DOMAIN st.deployments : st.deployments[j].id = id}}

ActiveRows_AnyState(st) ==
    LET rows == {st.deployments[k] : k \in DOMAIN st.deployments}
    IN {r \in rows : \A q \in rows : q.started_at <= r.started_at}

\* getActiveDeployment: WHERE state NOT IN (...) ORDER BY started_at DESC LIMIT 1;
\* rows that tie on started_at may come back in either order
ActiveRows(st) ==
    LET rows == {st.deployments[k] : k \in DOMAIN st.deployments}
        live == {r \in rows : r.state \notin {"IDLE", "PROMOTED", "ROLLED_BACK"}}
    IN {r \in live : \A q \in live : q.started_at <= r.started_at}

\* The persisted row of the snapshot's deployment equals the snapshot
RowMatches(st, s) == RowsOf(st, s.id) = {ToRow(s)}

----------------------------------------------------------------------------
(* Score snapshots and the gate evaluator *)

\* `const x = v; F(x)`: one statement after another, v computed once
Bind(v, F(_)) == CHOOSE r \in {F(x) : x \in {v}} : TRUE

\* p < 0.01 in evaluateRollback, baselineN < 10 in evaluateGate
StrongEvidence == 10
BaselineMinSamples == 10

\* One entry of a ScoreSnapshot.  `welch` is pValueOneSided of welchTTest on the raw
\* samples makeRunningStats rebuilds from (mean, std, n) of the two sides; the
\* t-distribution is not computed here, the value travels with the statistics.
ScoreEntry(bn, bmean, cn, cmean, p) ==
    [scorer |-> "Q", baseline |-> [mean |-> bmean, n |-> bn],
     canary |-> [mean |-> cmean, n |-> cn], welch |-> p]

\* `{}`: the controller's initial latestScores
EmptyScores == <<>>

\* scores[gate.scorer]?.baseline?.mean ?? 0 and so on
ScoreOf(scores, name) ==
    IF \E i \in DOMAIN scores : scores[i].scorer = name
    THEN scores[CHOOSE i \in DOMAIN scores : scores[i].scorer = name]
    ELSE [scorer |-> name, baseline |-> [mean |-> 0, n |-> 0],
          canary |-> [mean |-> 0, n |-> 0], welch |-> 500]

WelchPValueOneSided(entry) == entry.welch

\* evaluateGate(gate, baselineStats, canaryStats, minSamples)
EvaluateGate(gate, entry, minSamples) ==
    LET absoluteCheck == entry.canary.mean >= gate.threshold
        pValue == IF gate.comparison = "absolute_only" THEN {} ELSE {WelchPValueOneSided(entry)}
        comparisonCheck ==
            CASE gate.comparison = "absolute_only" -> TRUE
              [] gate.comparison = "not_worse_than_baseline" ->
                    WelchPValueOneSided(entry) >= 1000 - gate.confidence
              [] OTHER -> 1000 - WelchPValueOneSided(entry) >= gate.confidence
        base == [scorer |-> gate.scorer, baselineMean |-> entry.baseline.mean,
                 canaryMean |-> entry.canary.mean, baselineN |-> entry.baseline.n,
                 canaryN |-> entry.canary.n]
    IN  IF entry.canary.n < minSamples \/ entry.baseline.n < BaselineMinSamples
        THEN base @@ [status |-> "insufficient_data", pValue |-> {},
                      absoluteCheck |-> FALSE, comparisonCheck |-> FALSE]
        ELSE base @@ [status |-> IF absoluteCheck /\ comparisonCheck THEN "passing" ELSE "failing",
                      pValue |-> pValue,
                      absoluteCheck |-> absoluteCheck, comparisonCheck |-> comparisonCheck]

\* A StatsLike: count, average and the number of rawSamples it supplies
StatsLike(count, average, raw) == [count |-> count, average |-> average, raw |-> raw]

\* makeRunningStats(mean, std, n): rawSamples is padded to [mean, mean] when n <= 1
MakeRunningStats(mean, n) == StatsLike(n, mean, IF n > 1 THEN n ELSE 2)

\* welchTTest(baseline.rawSamples, canary.rawSamples): throws on fewer than 2 samples
\* on a side; `p` is the one-sided p-value it computes otherwise
WelchTTest(baselineStats, canaryStats, p) ==
    IF baselineStats.raw < 2 \/ canaryStats.raw < 2
    THEN [thrown |-> "Error", pValueOneSided |-> {}]
    ELSE [thrown |-> "none", pValueOneSided |-> {p}]

\* evaluateGate(gate, baselineStats, canaryStats, minSamples) on any pair of
\* StatsLike; `thrown` is the exception it lets through, "none" when it returns
EvaluateGateStats(gate, baselineStats, canaryStats, p, minSamples) ==
    LET base == [scorer |-> gate.scorer, baselineMean |-> baselineStats.average,
                 canaryMean |-> canaryStats.average, baselineN |-> baselineStats.count,
                 canaryN |-> canaryStats.count]
        absoluteCheck == canaryStats.average >= gate.threshold
    IN  IF canaryStats.count < minSamples \/ baselineStats.count < BaselineMinSamples
        THEN base @@ [status |-> "insufficient_data", pValue |-> {}, thrown |-> "none",
                      absoluteCheck |-> FALSE, comparisonCheck |-> FALSE]
        ELSE IF gate.comparison = "absolute_only"
        THEN base @@ [status |-> IF absoluteCheck THEN "passing" ELSE "failing",
                      pValue |-> {}, thrown |-> "none",
                      absoluteCheck |-> absoluteCheck, comparisonCheck |-> TRUE]
        ELSE Bind(WelchTTest(baselineStats, canaryStats, p), LAMBDA result :
             IF result.thrown # "none"
             THEN base @@ [status |-> "none", pValue |-> {}, thrown |-> result.thrown,
                           absoluteCheck |-> absoluteCheck, comparisonCheck |-> TRUE]
             ELSE LET comparisonCheck ==
                          IF gate.comparison = "not_worse_than_baseline"
                          THEN p >= 1000 - gate.confidence
                          ELSE 1000 - p >= gate.confidence
                  IN base @@ [status |-> IF absoluteCheck /\ comparisonCheck
                                         THEN "passing" ELSE "failing",
                              pValue |-> result.pValueOneSided, thrown |-> "none",
                              absoluteCheck |-> absoluteCheck,
                              comparisonCheck |-> comparisonCheck])

\* Array.prototype.find: the index of the first element of seq in `hits`
FirstOf(hits) == CHOOSE i \in hits : \A j \in hits : i <= j

\* ScoreMonitor.getStats().errorRateCanary > on_error_rate, on the two counters
ErrorRateExceeds(rate, limit) == rate.total > 0 /\ rate.errors * 100 > limit * rate.total

EvaluateRollback_ErrorRateFirst(s, gates, rate) ==
    LET rollbackConfig == Configs[s.config].rollback
        regressing == {i \in DOMAIN gates :
                          /\ gates[i].status = "failing"
                          /\ \E p \in gates[i].pValue : p < StrongEvidence}
        absoluteDrop == {i \in DOMAIN gates :
                          gates[i].baselineMean - gates[i].canaryMean > rollbackConfig.on_score_drop}
    IN  IF ~HasSnapshot(s) THEN {}
        ELSE IF ErrorRateExceeds(rate, rollbackConfig.on_error_rate) THEN {"error_rate_exceeded"}
        ELSE IF regressing # {} THEN {"score_regression:" \o gates[FirstOf(regressing)].scorer}
        ELSE IF absoluteDrop # {} THEN {"absolute_drop:" \o gates[FirstOf(absoluteDrop)].scorer}
        ELSE {}

\* StageController.evaluateRollback: the reason, {} for null
EvaluateRollback(s, gates, rate) ==
    LET rollbackConfig == Configs[s.config].rollback
        regressing == {i \in DOMAIN gates :
                          /\ gates[i].status = "failing"
                          /\ \E p \in gates[i].pValue : p < StrongEvidence}
        absoluteDrop == {i \in DOMAIN gates :
                          gates[i].baselineMean - gates[i].canaryMean > rollbackConfig.on_score_drop}
    IN  IF ~HasSnapshot(s) THEN {}
        ELSE IF regressing # {} THEN {"score_regression:" \o gates[FirstOf(regressing)].scorer}
        ELSE IF absoluteDrop # {} THEN {"absolute_drop:" \o gates[FirstOf(absoluteDrop)].scorer}
        ELSE IF ErrorRateExceeds(rate, rollbackConfig.on_error_rate) THEN {"error_rate_exceeded"}
        ELSE {}

NoDecision ==
    [evaluated |-> FALSE, promote |-> FALSE, rollback |-> FALSE, nextAction |-> "hold",
     reason |-> {}, gateResults |-> <<>>, timeRemainingMs |-> 0,
     allPassing |-> FALSE, durationElapsed |-> FALSE, samplesReached |-> FALSE,
     rate |-> [errors |-> 0, total |-> 0]]

\* stage.duration ? parseDuration(stage.duration) : 0
DurationMs(stage) == IF stage.duration = {} THEN 0 ELSE CHOOSE d \in stage.duration : TRUE

Max(a, b) == IF a >= b THEN a ELSE b

EvaluateStage_IgnoresDuration(s, scores, rate, t) ==
    IF ~HasSnapshot(s) THEN NoDecision
    ELSE
    Bind([i \in DOMAIN Stage(s.config, s.stageIndex).gates |->
             EvaluateGate(Stage(s.config, s.stageIndex).gates[i],
                          ScoreOf(scores, Stage(s.config, s.stageIndex).gates[i].scorer),
                          Stage(s.config, s.stageIndex).min_samples)], LAMBDA gateResults :
    Bind(EvaluateRollback(s, gateResults, rate), LAMBDA rollbackReason :
    LET stage == Stage(s.config, s.stageIndex)
        durationMs == DurationMs(stage)
        elapsed == t - s.stageEnteredAt
        durationElapsed == elapsed >= durationMs
        samplesReached == \A i \in DOMAIN gateResults : gateResults[i].canaryN >= stage.min_samples
        allPassing == /\ Len(gateResults) > 0
                      /\ \A i \in DOMAIN gateResults : gateResults[i].status = "passing"
        promote == allPassing /\ samplesReached
        common == [evaluated |-> TRUE, gateResults |-> gateResults,
                   timeRemainingMs |-> Max(0, durationMs - elapsed),
                   allPassing |-> allPassing, durationElapsed |-> durationElapsed,
                   samplesReached |-> samplesReached, rate |-> rate]
    IN  IF rollbackReason # {}
        THEN common @@ [promote |-> FALSE, rollback |-> TRUE, nextAction |-> "rollback",
                        reason |-> rollbackReason]
        ELSE common @@ [promote |-> promote, rollback |-> FALSE,
                        nextAction |-> IF promote THEN "auto_promote" ELSE "hold",
                        reason |-> {}]))

\* StageController.evaluateStage at time t; the three conjuncts of `promote` and the
\* error rate it was given are kept in the decision for inspection
EvaluateStage(s, scores, rate, t) ==
    IF ~HasSnapshot(s) THEN NoDecision
    ELSE
    Bind([i \in DOMAIN Stage(s.config, s.stageIndex).gates |->
             EvaluateGate(Stage(s.config, s.stageIndex).gates[i],
                          ScoreOf(scores, Stage(s.config, s.stageIndex).gates[i].scorer),
                          Stage(s.config, s.stageIndex).min_samples)], LAMBDA gateResults :
    Bind(EvaluateRollback(s, gateResults, rate), LAMBDA rollbackReason :
    LET stage == Stage(s.config, s.stageIndex)
        durationMs == DurationMs(stage)
        elapsed == t - s.stageEnteredAt
        durationElapsed == elapsed >= durationMs
        samplesReached == \A i \in DOMAIN gateResults : gateResults[i].canaryN >= stage.min_samples
        allPassing == /\ Len(gateResults) > 0
                      /\ \A i \in DOMAIN gateResults : gateResults[i].status = "passing"
        promote == allPassing /\ durationElapsed /\ samplesReached
        common == [evaluated |-> TRUE, gateResults |-> gateResults,
                   timeRemainingMs |-> Max(0, durationMs - elapsed),
                   allPassing |-> allPassing, durationElapsed |-> durationElapsed,
                   samplesReached |-> samplesReached, rate |-> rate]
    IN  IF rollbackReason # {}
        THEN common @@ [promote |-> FALSE, rollback |-> TRUE, nextAction |-> "rollback",
                        reason |-> rollbackReason]
        ELSE common @@ [promote |-> promote, rollback |-> FALSE,
                        nextAction |-> IF promote THEN "auto_promote" ELSE "hold",
                        reason |-> {}]))

----------------------------------------------------------------------------
(* Router *)

\* utils/hash.ts stableHash: a fixed string hash
StableHash(k) ==
    CASE k = "u1" -> 203
      [] k = "u2" -> 1047
      [] k = "u3" -> 499
      [] OTHER -> 0

ChooseVersion_MixesRandom(s, stickyValue, random) ==
    IF ~HasSnapshot(s) \/ s.state \notin {"STAGE", "PAUSED", "PENDING"}
    THEN [version |-> "baseline", canaryWeight |-> 0, stageIndex |-> s.stageIndex]
    ELSE IF s.canaryWeight <= 0
    THEN [version |-> "baseline", canaryWeight |-> s.canaryWeight, stageIndex |-> s.stageIndex]
    ELSE LET bucket == IF stickyValue # "" THEN (StableHash(stickyValue) + random) % 100
                       ELSE random
         IN [version |-> IF bucket < s.canaryWeight THEN "canary" ELSE "baseline",
             canaryWeight |-> s.canaryWeight, stageIndex |-> s.stageIndex]

ChooseVersion_RoutesPromoted(s, stickyValue, random) ==
    IF ~HasSnapshot(s) \/ s.state \notin {"STAGE", "PAUSED", "PENDING", "PROMOTED"}
    THEN [version |-> "baseline", canaryWeight |-> 0, stageIndex |-> s.stageIndex]
    ELSE IF s.canaryWeight <= 0
    THEN [version |-> "baseline", canaryWeight |-> s.canaryWeight, stageIndex |-> s.stageIndex]
    ELSE LET bucket == IF stickyValue # "" THEN StableHash(stickyValue) % 100 ELSE random
         IN [version |-> IF bucket < s.canaryWeight THEN "canary" ELSE "baseline",
             canaryWeight |-> s.canaryWeight, stageIndex |-> s.stageIndex]

\* chooseVersion(snapshot, stickyValue, random); `random` is floor(random * 100),
\* "" is an absent sticky value
ChooseVersion(s, stickyValue, random) ==
    IF ~HasSnapshot(s) \/ s.state \notin {"STAGE", "PAUSED", "PENDING"}
    THEN [version |-> "baseline", canaryWeight |-> 0, stageIndex |-> s.stageIndex]
    ELSE IF s.canaryWeight <= 0
    THEN [version |-> "baseline", canaryWeight |-> s.canaryWeight, stageIndex |-> s.stageIndex]
    ELSE LET bucket == IF stickyValue # "" THEN StableHash(stickyValue) % 100 ELSE random
         IN [version |-> IF bucket < s.canaryWeight THEN "canary" ELSE "baseline",
             canaryWeight |-> s.canaryWeight, stageIndex |-> s.stageIndex]

----------------------------------------------------------------------------
(* One run of a handler.  A handler is a chain of steps over a context c: the  *)
(* controller's fields, the store, the monitor's counters, and a record of    *)
(* what the run did.  c.thrown is the exception in flight ("none" when there  *)
(* is none): every step passes c through unchanged while one is in flight.    *)
(* c.failAt = k > 0 makes the k-th store write of the run throw; 0 makes none *)
(* throw.                                                                     *)

NoMonitor == [attached |-> FALSE, running |-> FALSE, canaryTotal |-> 0, canaryErrors |-> 0]

Ctx(s, scores, st, mon, t, failAt) ==
    [snapshot |-> s, latestScores |-> scores, store |-> st,
     monitor |-> mon, now |-> t,
     thrown |-> "none", failAt |-> failAt, writes |-> 0, fault |-> "none",
     caught |-> "none",
     before |-> s, preFail |-> NullSnapshot, trace |-> <<>>, events |-> <<>>,
     decision |-> NoDecision]

Throw(c, error) == IF c.thrown # "none" THEN c ELSE [c EXCEPT !.thrown = error]

\* A statement of the store: it throws when it is the failAt-th of the run
StoreWrite(c, kind, newStore) ==
    IF c.thrown # "none" THEN c
    ELSE IF c.writes + 1 = c.failAt
    THEN [c EXCEPT !.writes = @ + 1, !.thrown = "StoreFatal", !.fault = kind]
    ELSE [c EXCEPT !.writes = @ + 1, !.store = newStore]

\* StageController.emit: store.recordEvent(event), then bus.emitEvent(event).
\* `synced` notes whether the deployment's row equalled the snapshot at that moment,
\* stageIndex and canaryTotal the snapshot's stage and the monitor's counter then.
Emit(c, type, info, from, to) ==
    IF c.thrown # "none" \/ ~HasSnapshot(c.snapshot) THEN c
    ELSE Bind(StoreWrite(c, "recordEvent", RecordEventRow(c.store, c.snapshot.id, type)),
              LAMBDA c1 :
         IF c1.thrown # "none" THEN c1
         ELSE [c1 EXCEPT !.events =
                  Append(@, [type |-> type, deployment_id |-> c.snapshot.id, info |-> info,
                             from |-> from, to |-> to, state |-> c.snapshot.state,
                             stageIndex |-> c.snapshot.stageIndex,
                             canaryTotal |-> c.monitor.canaryTotal,
                             synced |-> RowMatches(c1.store, c.snapshot)])])

\* StageController.transition: the snapshot is replaced first, then written
Transition(c, to, reason, patch) ==
    IF c.thrown # "none" THEN c
    ELSE IF ~HasSnapshot(c.snapshot) THEN Throw(c, "Error")
    ELSE Bind(ApplyPatch(c.snapshot, to, patch), LAMBDA next :
         LET from == c.snapshot.state
             step == [from |-> from, to |-> to, stageIndex |-> next.stageIndex,
                      canaryWeight |-> next.canaryWeight]
         IN IF ~TransitionAllowed(from, to)
            THEN [c EXCEPT !.thrown = "InvalidTransition",
                           !.trace = Append(@, step @@ [applied |-> FALSE])]
            ELSE
            Bind([c EXCEPT !.snapshot = next,
                           !.trace = Append(@, step @@ [applied |-> TRUE])], LAMBDA c1 :
            Bind(StoreWrite(c1, "updateDeployment", UpdateDeploymentRow(c1.store, next)),
                 LAMBDA c2 :
            Bind(StoreWrite(c2, "recordTransition",
                            RecordTransitionRow(c2.store, next.id, from, to, reason)),
                 LAMBDA c3 :
            IF c3.thrown # "none" THEN [c3 EXCEPT !.preFail = c.snapshot] ELSE c3))))

\* ScoreMonitor.resetForStage, when the controller has a monitor
ResetForStage(c) ==
    IF c.thrown # "none" \/ ~c.monitor.attached THEN c
    ELSE [c EXCEPT !.monitor.canaryTotal = 0, !.monitor.canaryErrors = 0]

\* StageController.currentCanaryErrorRate
CurrentCanaryErrorRate(c) ==
    IF ~c.monitor.attached THEN [errors |-> 0, total |-> 0]
    ELSE [errors |-> c.monitor.canaryErrors, total |-> c.monitor.canaryTotal]

\* StageController.startDeployment(config, id)
StartDeployment(c, cfg, id) ==
    LET firstStage == Stage(cfg, 0)
        pending == [id |-> id, config |-> cfg, state |-> "PENDING", stageIndex |-> 0,
                    stageEnteredAt |-> c.now, startedAt |-> c.now, completedAt |-> {},
                    finalState |-> {}, pausedStageIndex |-> {},
                    canaryWeight |-> firstStage.weight, reason |-> {}]
    IN Bind(StoreWrite(c, "createDeployment", CreateDeploymentRow(c.store, pending)),
            LAMBDA c1 :
       Bind(IF c1.thrown # "none" THEN c1 ELSE [c1 EXCEPT !.snapshot = pending], LAMBDA c2 :
       Bind(Emit(c2, "deployment_started", "", 0, 0), LAMBDA c3 :
       Transition(c3, "STAGE", "deployment_initialized",
                  [canaryWeight |-> firstStage.weight, stageEnteredAt |-> c.now]))))

\* StageController.pause
Pause(c) ==
    IF ~HasSnapshot(c.snapshot) \/ c.snapshot.state # "STAGE" THEN Throw(c, "Error")
    ELSE Bind(Transition(c, "PAUSED", "manual_pause",
                         [pausedStageIndex |-> {c.snapshot.stageIndex}]), LAMBDA c1 :
         Emit(c1, "paused", "", 0, 0))

Resume_AtFirstStage(c) ==
    IF ~HasSnapshot(c.snapshot) \/ c.snapshot.state # "PAUSED" THEN Throw(c, "Error")
    ELSE Bind(Transition(c, "STAGE", "manual_resume",
                         [stageIndex |-> 0, stageEnteredAt |-> c.now,
                          pausedStageIndex |-> {},
                          canaryWeight |-> Stage(c.snapshot.config, 0).weight]),
              LAMBDA c1 :
         Emit(c1, "resumed", "", 0, 0))

Resume_KeepsTimer(c) ==
    IF ~HasSnapshot(c.snapshot) \/ c.snapshot.state # "PAUSED" THEN Throw(c, "Error")
    ELSE LET stageIndex == IF c.snapshot.pausedStageIndex = {} THEN c.snapshot.stageIndex
                           ELSE CHOOSE i \in c.snapshot.pausedStageIndex : TRUE
         IN Bind(Transition(c, "STAGE", "manual_resume",
                            [stageIndex |-> stageIndex, pausedStageIndex |-> {},
                             canaryWeight |-> Stage(c.snapshot.config, stageIndex).weight]),
                 LAMBDA c1 :
            Emit(c1, "resumed", "", 0, 0))

\* StageController.resume
Resume(c) ==
    IF ~HasSnapshot(c.snapshot) \/ c.snapshot.state # "PAUSED" THEN Throw(c, "Error")
    ELSE LET stageIndex == IF c.snapshot.pausedStageIndex = {} THEN c.snapshot.stageIndex
                           ELSE CHOOSE i \in c.snapshot.pausedStageIndex : TRUE
         IN Bind(Transition(c, "STAGE", "manual_resume",
                            [stageIndex |-> stageIndex, stageEnteredAt |-> c.now,
                             pausedStageIndex |-> {},
                             canaryWeight |-> Stage(c.snapshot.config, stageIndex).weight]),
                 LAMBDA c1 :
            Emit(c1, "resumed", "", 0, 0))

AdvanceStage_KeepsWeight(c, reason) ==
    IF c.thrown # "none" \/ ~HasSnapshot(c.snapshot) THEN c
    ELSE LET nextIndex == c.snapshot.stageIndex + 1 IN
         IF nextIndex >= StageCount(c.snapshot.config)
         THEN Bind(Transition(c, "PROMOTED", reason,
                              [canaryWeight |-> 100, finalState |-> {"PROMOTED"},
                               completedAt |-> {c.now}]), LAMBDA c1 :
              Emit(c1, "deployment_complete", "PROMOTED", 0, 0))
         ELSE Bind(Transition(c, "STAGE", reason,
                              [stageIndex |-> nextIndex, stageEnteredAt |-> c.now]),
                   LAMBDA c1 :
              Bind(ResetForStage(c1), LAMBDA c2 :
              Emit(c2, "stage_change", "", c.snapshot.stageIndex, nextIndex)))

\* StageController.advanceStage(reason)
AdvanceStage(c, reason) ==
    IF c.thrown # "none" \/ ~HasSnapshot(c.snapshot) THEN c
    ELSE LET nextIndex == c.snapshot.stageIndex + 1 IN
         IF nextIndex >= StageCount(c.snapshot.config)
         THEN Bind(Transition(c, "PROMOTED", reason,
                              [canaryWeight |-> 100, finalState |-> {"PROMOTED"},
                               completedAt |-> {c.now}]), LAMBDA c1 :
              Emit(c1, "deployment_complete", "PROMOTED", 0, 0))
         ELSE Bind(Transition(c, "STAGE", reason,
                              [stageIndex |-> nextIndex, stageEnteredAt |-> c.now,
                               canaryWeight |-> Stage(c.snapshot.config, nextIndex).weight]),
                   LAMBDA c1 :
              Bind(ResetForStage(c1), LAMBDA c2 :
              Emit(c2, "stage_change", "", c.snapshot.stageIndex, nextIndex)))

Promote_SkipsEvaluation(c, force) ==
    IF ~HasSnapshot(c.snapshot) \/ c.snapshot.state \notin {"STAGE", "PAUSED"}
    THEN Throw(c, "Error")
    ELSE AdvanceStage(c, "manual_promote")

\* StageController.promote(force)
Promote(c, force) ==
    IF ~HasSnapshot(c.snapshot) \/ c.snapshot.state \notin {"STAGE", "PAUSED"}
    THEN Throw(c, "Error")
    ELSE IF /\ ~force
            /\ c.snapshot.state = "STAGE"
            /\ ~EvaluateStage(c.snapshot, c.latestScores, CurrentCanaryErrorRate(c), c.now).promote
    THEN Throw(c, "Error")
    ELSE AdvanceStage(c, "manual_promote")

Rollback_SkipsRollingBack(c, reason) ==
    IF c.thrown # "none" THEN c
    ELSE IF ~HasSnapshot(c.snapshot) \/ c.snapshot.state \in {"ROLLED_BACK", "PROMOTED", "IDLE"}
    THEN Throw(c, "Error")
    ELSE Bind(Transition(c, "ROLLING_BACK", reason,
                         [finalState |-> {"ROLLED_BACK"}, completedAt |-> {c.now},
                          canaryWeight |-> 0, reason |-> {reason}]), LAMBDA c2 :
         Bind(Emit(c2, "rollback_triggered", reason, 0, 0), LAMBDA c3 :
         Emit(c3, "deployment_complete", "ROLLED_BACK", 0, 0)))

\* StageController.rollback(reason)
Rollback(c, reason) ==
    IF c.thrown # "none" THEN c
    ELSE IF ~HasSnapshot(c.snapshot) \/ c.snapshot.state \in {"ROLLED_BACK", "PROMOTED", "IDLE"}
    THEN Throw(c, "Error")
    ELSE Bind(Transition(c, "ROLLING_BACK", reason,
                         [canaryWeight |-> 0, reason |-> {reason}]), LAMBDA c1 :
         Bind(Transition(c1, "ROLLED_BACK", reason,
                         [finalState |-> {"ROLLED_BACK"}, completedAt |-> {c.now},
                          canaryWeight |-> 0, reason |-> {reason}]), LAMBDA c2 :
         Bind(Emit(c2, "rollback_triggered", reason, 0, 0), LAMBDA c3 :
         Emit(c3, "deployment_complete", "ROLLED_BACK", 0, 0))))

OnScoreUpdate_EvaluatesPaused(c, scores) ==
    Bind([c EXCEPT !.latestScores = scores], LAMBDA c0 :
    IF ~HasSnapshot(c0.snapshot) \/ c0.snapshot.state \notin {"STAGE", "PAUSED"} THEN c0
    ELSE
    Bind(StoreWrite(c0, "recordScoreSnapshot", c0.store), LAMBDA c1 :
    Bind(Emit(c1, "score_update", "", 0, 0), LAMBDA c2 :
    Bind(EvaluateStage(c2.snapshot, scores, CurrentCanaryErrorRate(c2), c2.now),
         LAMBDA decision :
    Bind(IF c2.thrown # "none" THEN c2 ELSE [c2 EXCEPT !.decision = decision], LAMBDA c3 :
    Bind(Emit(c3, "gate_status", decision.nextAction, 0, 0), LAMBDA c4 :
    IF c4.thrown # "none" THEN c4
    ELSE IF decision.rollback
    THEN Rollback(c4, IF decision.reason = {} THEN "rollback_triggered"
                      ELSE CHOOSE r \in decision.reason : TRUE)
    ELSE IF decision.promote THEN AdvanceStage(c4, "auto_promote")
    ELSE c4))))))

\* StageController.onScoreUpdate(snapshot)
OnScoreUpdate(c, scores) ==
    Bind([c EXCEPT !.latestScores = scores], LAMBDA c0 :
    IF ~HasSnapshot(c0.snapshot) \/ c0.snapshot.state # "STAGE" THEN c0
    ELSE
    Bind(StoreWrite(c0, "recordScoreSnapshot", c0.store), LAMBDA c1 :
    Bind(Emit(c1, "score_update", "", 0, 0), LAMBDA c2 :
    Bind(EvaluateStage(c2.snapshot, scores, CurrentCanaryErrorRate(c2), c2.now),
         LAMBDA decision :
    Bind(IF c2.thrown # "none" THEN c2 ELSE [c2 EXCEPT !.decision = decision], LAMBDA c3 :
    Bind(Emit(c3, "gate_status", decision.nextAction, 0, 0), LAMBDA c4 :
    IF c4.thrown # "none" THEN c4
    ELSE IF decision.rollback
    THEN Rollback(c4, IF decision.reason = {} THEN "rollback_triggered"
                      ELSE CHOOSE r \in decision.reason : TRUE)
    ELSE IF decision.promote THEN AdvanceStage(c4, "auto_promote")
    ELSE c4))))))

\* StageController.onMonitorHealth and the "error" listener of attachMonitor
OnMonitorHealth(c, status) == Emit(c, "monitor_health", status, 0, 0)

\* catch (error) { ... } of ScoreMonitor.poll
Catch(c) == IF c.thrown = "none" THEN c ELSE [c EXCEPT !.caught = c.thrown, !.thrown = "none"]

\* The catch block of poll: error, then monitor_health with the status of the
\* client's diagnostics, to the controller's listeners
PollCatch(c, status) ==
    Bind(Catch(c), LAMBDA c1 :
    Bind(OnMonitorHealth(c1, "degraded"), LAMBDA c2 :
    OnMonitorHealth(c2, status)))

\* ScoreMonitor.poll whose two queries succeeded: consumeRows on the canary rows
\* (rows.total of them, rows.errors with an error), then score_update and
\* monitor_health to the controller's listeners
PollSucceeded(c, scores, rows) ==
    Bind([c EXCEPT !.monitor.canaryTotal = @ + rows.total,
                   !.monitor.canaryErrors = @ + rows.errors], LAMBDA c0 :
    Bind(OnScoreUpdate(c0, scores), LAMBDA c1 :
    Bind(OnMonitorHealth(c1, "healthy"), LAMBDA c2 :
    IF c2.thrown = "none" THEN c2 ELSE PollCatch(c2, "healthy"))))

PollFailed_FailsClosed(c) ==
    Bind(PollCatch(c, "degraded"), LAMBDA c1 : Rollback(c1, "monitor_failed"))

\* ScoreMonitor.poll whose query threw: BTQLClient.recordFailure has set the
\* diagnostics to degraded
PollFailed(c) == PollCatch(c, "degraded")

\* BrainCanaryProxyServer.deploy(config): the previous monitor is stopped, the
\* controller starts the deployment, a new monitor is attached and started
Deploy(c, cfg, id) ==
    Bind([c EXCEPT !.monitor.running = FALSE], LAMBDA c0 :
    Bind(StartDeployment(c0, cfg, id), LAMBDA c1 :
    IF c1.thrown # "none" THEN c1
    ELSE [c1 EXCEPT !.monitor = [attached |-> TRUE, running |-> TRUE,
                                 canaryTotal |-> 0, canaryErrors |-> 0]]))

----------------------------------------------------------------------------
(* Inputs *)

\* Score snapshots the monitor delivers for scorer Q.  The one-sided p-value is below
\* 500 only when the canary mean is below the baseline mean, and 500 when the means
\* are equal or no sample varies (se = 0 in welchTTest).
\* Too few samples on one side:
InsufficientScores ==
    {<<ScoreEntry(0, 0, 0, 0, 500)>>, <<ScoreEntry(9, 90, 2, 90, 500)>>,
     <<ScoreEntry(10, 90, 0, 0, 500)>>, <<ScoreEntry(10, 90, 1, 90, 500)>>}

\* Enough samples on both sides
SufficientScores ==
    {<<ScoreEntry(10, 90, 2, 90, 500)>>, <<ScoreEntry(10, 90, 2, 85, 20)>>,
     <<ScoreEntry(10, 90, 2, 83, 50)>>, <<ScoreEntry(10, 90, 2, 83, 5)>>,
     <<ScoreEntry(10, 90, 2, 40, 500)>>, <<ScoreEntry(10, 90, 2, 40, 5)>>}

ScoreInputs == InsufficientScores \cup SufficientScores

\* One snapshot for each outcome under ConfigGated: hold, promote, roll back
CoarseScores ==
    {<<ScoreEntry(10, 90, 1, 90, 500)>>, <<ScoreEntry(10, 90, 2, 83, 50)>>,
     <<ScoreEntry(10, 90, 2, 83, 5)>>}

\* Canary rows one poll consumes: `total` of them, `errors` of them with an error
NoRows == [total |-> 0, errors |-> 0]
RowInputs == {[total |-> k, errors |-> e] : k \in 0..MaxCanaryRows, e \in 0..MaxCanaryRows}
CleanRows == {rows \in RowInputs : rows.errors = 0}

RollbackReasons == {"manual_rollback"}

\* Arguments of evaluateGate: the three comparisons, min_samples from 1, statistics
\* as RunningStats supplies them (as many raw samples as it counted) and as
\* makeRunningStats does (padded to two), means on both sides of the threshold and
\* p-values on both sides of 1 - confidence
GateInputs == {GateNotWorse, GateAbsolute, GateBetter}
MinSamplesInputs == 1..3
BaselineStatsInputs == {StatsLike(9, 90, 9), StatsLike(10, 90, 10)}
CanaryStatsInputs ==
    {StatsLike(n, mean, n) : n \in 0..3, mean \in {49, 50, 90}}
    \cup {MakeRunningStats(mean, n) : n \in 0..1, mean \in {49, 50, 90}}
PValueInputs == {5, 49, 50, 51, 500}

\* Sticky values extractStickyValue hands to the router ("" when there is none) and
\* values of floor(Math.random() * 100) around the stage weights
StickyValues == {"", "u1", "u2", "u3"}
RandomDraws == {0, 4, 5, 49, 50, 99}

\* Ids randomUUID hands out, in order
DeploymentIds == {1}

\* The id of a deployment made while the store already holds one
LaterDeploymentIds == {2}

Call(op, cfg, force, reason, scores, rows) ==
    [op |-> op, cfg |-> cfg, force |-> force, reason |-> reason, scores |-> scores, rows |-> rows]

DeployCalls(cfgs) == {Call("deploy", cfg, FALSE, "", EmptyScores, NoRows) : cfg \in cfgs}
RedeployCalls(cfgs) == {Call("redeploy", cfg, FALSE, "", EmptyScores, NoRows) : cfg \in cfgs}
PauseCalls == {Call("pause", 0, FALSE, "", EmptyScores, NoRows)}
ResumeCalls == {Call("resume", 0, FALSE, "", EmptyScores, NoRows)}
PromoteCalls == {Call("promote", 0, force, "", EmptyScores, NoRows) : force \in BOOLEAN}
RollbackCalls == {Call("rollback", 0, FALSE, reason, EmptyScores, NoRows) : reason \in RollbackReasons}
PollCalls(scoreSet, rowSet) ==
    {Call("score_update", 0, FALSE, "", scores, rows) : scores \in scoreSet, rows \in rowSet}
PollFailedCalls == {Call("poll_failed", 0, FALSE, "", EmptyScores, NoRows)}

\* When the call can happen: the API routes are always open, a tick needs a
\* started monitor, randomUUID never repeats an id
CanCall(call) ==
    CASE call.op = "deploy" -> Len(store.deployments) + 1 \in DeploymentIds
      [] call.op = "redeploy" -> Len(store.deployments) + 1 \in LaterDeploymentIds
      [] call.op = "score_update" ->
            /\ monitor.attached /\ monitor.running
            /\ call.rows.errors <= call.rows.total
            /\ monitor.canaryTotal + call.rows.total <= MaxCanaryRows
            \* a canary score comes from a canary row consumed since the last reset
            /\ \A i \in DOMAIN call.scores :
                   call.scores[i].canary.n <= monitor.canaryTotal + call.rows.total
      [] call.op = "poll_failed" -> monitor.attached /\ monitor.running
      [] OTHER -> TRUE

\* The context the call leaves when the failAt-th store write throws
Run(call, failAt) ==
    Bind(Ctx(snapshot, latestScores, store, monitor, now, failAt), LAMBDA c :
    CASE call.op = "deploy" -> Deploy(c, call.cfg, Len(store.deployments) + 1)
      [] call.op = "redeploy" -> Deploy(c, call.cfg, Len(store.deployments) + 1)
      [] call.op = "pause" -> Pause(c)
      [] call.op = "resume" -> Resume(c)
      [] call.op = "promote" -> Promote(c, call.force)
      [] call.op = "rollback" -> Rollback(c, call.reason)
      [] call.op = "score_update" -> PollSucceeded(c, call.scores, call.rows)
      [] OTHER -> PollFailed(c))

\* What one handler run did: its exception (thrown), the store write that failed
\* (fault), the exception poll caught, the snapshot before the run and before the
\* failed transition, the transitions requested, the events put on the bus
LastOf(op, c) ==
    [op |-> op, thrown |-> c.thrown, fault |-> c.fault, caught |-> c.caught,
     before |-> c.before, preFail |-> c.preFail, trace |-> c.trace, events |-> c.events,
     decision |-> c.decision]

\* Between two handlers: nothing is running and `last` is blank
Idle == LastOf("idle", Ctx(NullSnapshot, EmptyScores, EmptyStore, NoMonitor, 0, 0))

\* The outcomes of the call in the current state: none while a handler is running
\* or when the call cannot happen
Outcomes(call, failAt) ==
    IF last = Idle /\ CanCall(call) THEN {Run(call, failAt)} ELSE {}

----------------------------------------------------------------------------
(* ScoreMonitor: its fields, the BTQL queries it has in flight and the trace *)
(* rows of the deployment in the backend.  One scorer; the running           *)
(* statistics of a version are the bag of the rows whose score was added,    *)
(* so that count is the size of the bag.  Stage start is time 0.             *)

\* Most trace rows the backend holds
MaxTraces == 2

StageStartTime == 0

\* The `created` timestamps of the trace rows
CreatedInputs == (StageStartTime + 1)..(StageStartTime + 2)

Versions == {"baseline", "canary"}

\* BagCardinality of a bag over row ids (RunningStats.count)
RECURSIVE BagSize(_)
BagSize(bag) ==
    IF DOMAIN bag = {} THEN 0
    ELSE LET id == CHOOSE x \in DOMAIN bag : TRUE
         IN bag[id] + BagSize([x \in DOMAIN bag \ {id} |-> bag[x]])

NoSamples == [id \in {} |-> 0]

\* RunningStats.add of the score of each of the rows
AddSamples(bag, ids) ==
    [id \in DOMAIN bag \cup ids |->
        (IF id \in DOMAIN bag THEN bag[id] ELSE 0) + (IF id \in ids THEN 1 ELSE 0)]

\* The monitor after its constructor
NewScoreMonitor ==
    [timer |-> FALSE, baselineStats |-> NoSamples, canaryStats |-> NoSamples,
     baselineWatermark |-> StageStartTime, canaryWatermark |-> StageStartTime,
     inFlight |-> FALSE, canaryTotal |-> 0, canaryErrors |-> 0]

\* The rows the WHERE clause of fetchRows selects
FetchRows(rows, version, watermark) ==
    {row \in rows : row.version = version /\ row.created > watermark}

ConsumeRows(m, version, rows) ==
    LET scored == {row.id : row \in {r \in rows : r.scored}}
    IN IF version = "canary"
       THEN [m EXCEPT !.canaryTotal = @ + Cardinality(rows),
                      !.canaryErrors = @ + Cardinality({r \in rows : r.error}),
                      !.canaryStats = AddSamples(@, scored)]
       ELSE [m EXCEPT !.baselineStats = AddSamples(@, scored)]

\* Mutant: the watermark never moves
MaxCreatedAt_KeepsCurrent(current, rows) == current

\* Mutant: the watermark moves to the earliest row
MaxCreatedAt_Earliest(current, rows) ==
    IF rows = {} THEN current
    ELSE CHOOSE created \in {row.created : row \in rows} :
             \A row \in rows : row.created >= created

MaxCreatedAt(current, rows) ==
    IF \E row \in rows : row.created > current
    THEN CHOOSE created \in {row.created : row \in rows} :
             \A row \in rows : row.created <= created
    ELSE current

BuildSnapshot(m) ==
    [baselineN |-> BagSize(m.baselineStats), canaryN |-> BagSize(m.canaryStats)]

BTQLRequest(version, watermark) == [version |-> version, watermark |-> watermark]

\* Mutant: poll without its in-flight guard
Poll_Overlaps(m, inflight) ==
    [m |-> [m EXCEPT !.inFlight = TRUE],
     inflight |-> Append(inflight, BTQLRequest("baseline", m.baselineWatermark)),
     emitted |-> <<>>]

\* poll() up to its first await: the baseline query is on its way
Poll(m, inflight) ==
    IF m.inFlight
    THEN [m |-> m, inflight |-> inflight, emitted |-> <<>>]
    ELSE [m |-> [m EXCEPT !.inFlight = TRUE],
          inflight |-> Append(inflight, BTQLRequest("baseline", m.baselineWatermark)),
          emitted |-> <<>>]

\* poll() from the rows of the baseline query to its second await
PollBaselineRows(m, inflight, rows) ==
    LET consumed == ConsumeRows(m, "baseline", rows)
        moved == [consumed EXCEPT !.baselineWatermark = MaxCreatedAt(@, rows)]
    IN [m |-> moved,
        inflight |-> Append(inflight, BTQLRequest("canary", moved.canaryWatermark)),
        emitted |-> <<>>]

\* poll() from the rows of the canary query to its end
PollCanaryRows(m, inflight, rows) ==
    LET consumed == ConsumeRows(m, "canary", rows)
        moved == [consumed EXCEPT !.canaryWatermark = MaxCreatedAt(@, rows)]
    IN [m |-> [moved EXCEPT !.inFlight = FALSE],
        inflight |-> inflight,
        emitted |-> <<[type |-> "score_update", scores |-> BuildSnapshot(moved)],
                      [type |-> "monitor_health", status |-> "healthy"]>>]

\* Mutant: a failed poll without its finally block
PollQueryFailed_StaysInFlight(m, inflight) ==
    [m |-> m,
     inflight |-> inflight,
     emitted |-> <<[type |-> "error"], [type |-> "monitor_health", status |-> "degraded"]>>]

\* poll() from the rejection of either query to its end
PollQueryFailed(m, inflight) ==
    [m |-> [m EXCEPT !.inFlight = FALSE],
     inflight |-> inflight,
     emitted |-> <<[type |-> "error"], [type |-> "monitor_health", status |-> "degraded"]>>]

\* start(): the immediate poll(), then the interval timer
MonitorStart(m, inflight) ==
    LET r == Poll(m, inflight)
    IN [r EXCEPT !.m = [r.m EXCEPT !.timer = TRUE]]

\* stop(): the interval timer is cleared
MonitorStop(m) == [m EXCEPT !.timer = FALSE]

\* resetForStage(stageStart)
MonitorResetForStage(m, stageStart) ==
    [m EXCEPT !.baselineWatermark = stageStart, !.canaryWatermark = stageStart,
              !.canaryErrors = 0, !.canaryTotal = 0,
              !.baselineStats = NoSamples, !.canaryStats = NoSamples]

\* Nothing observed yet of the monitor: `start` is the monitor when its current
\* tick began, `emitted` the events of that tick and `previous` the first event
\* of the tick before it, `returned` the rows the backend has returned since `stageStart`
NoTick ==
    [op |-> "other", start |-> NewScoreMonitor, scoredAtStart |-> {}, emitted |-> <<>>,
     previous |-> "none", returned |-> {}, stageStart |-> StageStartTime]

RemoveAt(seq, i) == [j \in 1..(Len(seq) - 1) |-> IF j < i THEN seq[j] ELSE seq[j + 1]]

----------------------------------------------------------------------------
(* Actions *)

Init ==
    /\ snapshot = NullSnapshot
    /\ latestScores = EmptyScores
    /\ store = EmptyStore
    /\ monitor = NoMonitor
    /\ now = 0
    /\ last = Idle
    /\ scoreMonitor = NewScoreMonitor
    /\ requests = <<>>
    /\ traces = {}
    /\ tick = NoTick
    /\ awaiting = {}

\* POST /api/deploy
DeployAction(cfgs) ==
    \E call \in DeployCalls(cfgs) : \E c \in Outcomes(call, 0) :
        /\ snapshot' = c.snapshot /\ latestScores' = c.latestScores
        /\ store' = c.store /\ monitor' = c.monitor
        /\ last' = LastOf(call.op, c) /\ UNCHANGED <<now, monitorVars, awaiting>>

\* POST /api/deploy on a server that has deployed before
RedeployAction(cfgs) ==
    \E call \in RedeployCalls(cfgs) : \E c \in Outcomes(call, 0) :
        /\ snapshot' = c.snapshot /\ latestScores' = c.latestScores
        /\ store' = c.store /\ monitor' = c.monitor
        /\ last' = LastOf(call.op, c) /\ UNCHANGED <<now, monitorVars, awaiting>>

\* POST /api/pause
PauseAction ==
    \E call \in PauseCalls : \E c \in Outcomes(call, 0) :
        /\ snapshot' = c.snapshot /\ latestScores' = c.latestScores
        /\ store' = c.store /\ monitor' = c.monitor
        /\ last' = LastOf(call.op, c) /\ UNCHANGED <<now, monitorVars, awaiting>>

\* POST /api/resume
ResumeAction ==
    \E call \in ResumeCalls : \E c \in Outcomes(call, 0) :
        /\ snapshot' = c.snapshot /\ latestScores' = c.latestScores
        /\ store' = c.store /\ monitor' = c.monitor
        /\ last' = LastOf(call.op, c) /\ UNCHANGED <<now, monitorVars, awaiting>>

\* POST /api/promote
PromoteAction ==
    \E call \in PromoteCalls : \E c \in Outcomes(call, 0) :
        /\ snapshot' = c.snapshot /\ latestScores' = c.latestScores
        /\ store' = c.store /\ monitor' = c.monitor
        /\ last' = LastOf(call.op, c) /\ UNCHANGED <<now, monitorVars, awaiting>>

\* POST /api/rollback
RollbackAction ==
    \E call \in RollbackCalls : \E c \in Outcomes(call, 0) :
        /\ snapshot' = c.snapshot /\ latestScores' = c.latestScores
        /\ store' = c.store /\ monitor' = c.monitor
        /\ last' = LastOf(call.op, c) /\ UNCHANGED <<now, monitorVars, awaiting>>

\* A tick of the monitor whose query fails
PollFailure ==
    \E call \in PollFailedCalls : \E c \in Outcomes(call, 0) :
        /\ snapshot' = c.snapshot /\ latestScores' = c.latestScores
        /\ store' = c.store /\ monitor' = c.monitor
        /\ last' = LastOf(call.op, c) /\ UNCHANGED <<now, monitorVars, awaiting>>

\* A tick of the monitor that delivers a score snapshot
ScoreUpdate(scoreSet, rowSet) ==
    \E call \in PollCalls(scoreSet, rowSet) : \E c \in Outcomes(call, 0) :
        /\ snapshot' = c.snapshot /\ latestScores' = c.latestScores
        /\ store' = c.store /\ monitor' = c.monitor
        /\ last' = LastOf(call.op, c) /\ UNCHANGED <<now, monitorVars, awaiting>>

\* Any of the calls, with one of its store writes throwing
StoreFault(calls) ==
    \E call \in calls : \E k \in 1..Run(call, 0).writes : \E c \in Outcomes(call, k) :
        /\ snapshot' = c.snapshot /\ latestScores' = c.latestScores
        /\ store' = c.store /\ monitor' = c.monitor
        /\ last' = LastOf(call.op, c) /\ UNCHANGED <<now, monitorVars, awaiting>>

\* new StageController(...); recoverFromStore(): a new process on the same database
Restart ==
    /\ last = Idle
    /\ \/ /\ ActiveRows(store) = {}
          /\ snapshot' = NullSnapshot
       \/ \E row \in ActiveRows(store) : snapshot' = FromRow(row)
    /\ latestScores' = EmptyScores
    /\ monitor' = NoMonitor
    /\ last' = LastOf("restart", Ctx(snapshot, EmptyScores, store, NoMonitor, now, 0))
    /\ awaiting' = {}
    /\ UNCHANGED <<store, now, monitorVars>>

\* A model request: chooseVersion on the controller's snapshot.  The run's decision
\* field holds the arguments and the RoutingDecision returned.
RouteAction ==
    \E stickyValue \in StickyValues : \E random \in RandomDraws :
        /\ last = Idle
        /\ last' = LastOf("route",
                          [Ctx(snapshot, latestScores, store, monitor, now, 0)
                              EXCEPT !.decision =
                                  [stickyValue |-> stickyValue, random |-> random,
                                   routed |-> ChooseVersion(snapshot, stickyValue, random)]])
        /\ UNCHANGED <<snapshot, latestScores, store, monitor, now, monitorVars, awaiting>>

\* A call of evaluateGate.  The run's decision field holds the arguments and the
\* GateResult returned (or the exception thrown).
GateCall ==
    \E gate \in GateInputs : \E minSamples \in MinSamplesInputs :
    \E baselineStats \in BaselineStatsInputs : \E canaryStats \in CanaryStatsInputs :
    \E p \in PValueInputs :
        /\ last = Idle
        /\ last' = LastOf("evaluate_gate",
                          [Ctx(snapshot, latestScores, store, monitor, now, 0)
                              EXCEPT !.decision =
                                  [gate |-> gate, minSamples |-> minSamples,
                                   baselineStats |-> baselineStats,
                                   canaryStats |-> canaryStats, p |-> p,
                                   result |-> EvaluateGateStats(gate, baselineStats,
                                                                canaryStats, p, minSamples)]])
        /\ UNCHANGED <<snapshot, latestScores, store, monitor, now, monitorVars, awaiting>>

\* The handler has returned to the event loop; the next one may run
Return ==
    /\ last # Idle
    /\ last' = Idle
    /\ UNCHANGED <<snapshot, latestScores, store, monitor, now, monitorVars, awaiting>>

ClockTick ==
    /\ last = Idle
    /\ now < MaxTime
    /\ now' = now + 1
    /\ UNCHANGED <<snapshot, latestScores, store, monitor, last, monitorVars, awaiting>>

----------------------------------------------------------------------------
(* Spec: the controller under every call of the API and of the monitor, with  *)
(* store writes that throw and process restarts, all within one millisecond   *)

ControlCalls ==
    DeployCalls({2}) \cup PauseCalls \cup ResumeCalls \cup PromoteCalls \cup RollbackCalls
    \cup PollCalls(CoarseScores, CleanRows) \cup PollFailedCalls

Next ==
    \/ DeployAction({2})
    \/ PauseAction
    \/ ResumeAction
    \/ PromoteAction
    \/ RollbackAction
    \/ ScoreUpdate(CoarseScores, CleanRows)
    \/ PollFailure
    \/ StoreFault(ControlCalls)
    \/ Restart
    \/ Return

Spec == Init /\ [][Next]_vars

(* SpecGates: one deployment without faults, under every score snapshot, canary *)
(* row and time the gates distinguish                                           *)

NextGates ==
    \/ DeployAction({1, 2})
    \/ PromoteAction
    \/ ScoreUpdate(ScoreInputs, RowInputs)
    \/ Return
    \/ ClockTick

SpecGates == Init /\ [][NextGates]_vars

(* SpecS1: scenario S1 left to itself: one deployment of ConfigS1 made at time  *)
(* 0, the score snapshots of a healthy canary (some of them still short of     *)
(* samples), no manual operation and no fault.  Time passes and a handler that *)
(* has started returns.                                                        *)

\* Snapshots under which the gate of the first stage of ConfigS1 passes
HealthyScores ==
    {<<ScoreEntry(10, 90, 2, 90, 500)>>, <<ScoreEntry(10, 90, 2, 89, 450)>>,
     <<ScoreEntry(10, 90, 2, 91, 550)>>, <<ScoreEntry(11, 90, 2, 90, 500)>>,
     <<ScoreEntry(12, 90, 2, 88, 400)>>}

\* The same canary before enough samples have arrived
EarlyScores ==
    {<<ScoreEntry(0, 0, 0, 0, 500)>>, <<ScoreEntry(9, 90, 1, 90, 500)>>,
     <<ScoreEntry(10, 90, 1, 90, 500)>>, <<ScoreEntry(1, 90, 0, 0, 500)>>,
     <<ScoreEntry(9, 90, 2, 90, 500)>>}

\* The clock of the scenario starts with the deployment
TickS1 == HasSnapshot(snapshot) /\ ClockTick

NextS1 ==
    \/ DeployAction({1})
    \/ ScoreUpdate(HealthyScores \cup EarlyScores, CleanRows)
    \/ Return
    \/ TickS1

SpecS1 == Init /\ [][NextS1]_vars /\ SF_vars(TickS1) /\ WF_vars(Return)

(* SpecManual: one deployment driven by hand while time passes: the operator's *)
(* calls, store writes that throw and process restarts, no monitor tick        *)

ManualCalls ==
    DeployCalls({1, 2}) \cup PauseCalls \cup ResumeCalls \cup PromoteCalls \cup RollbackCalls

NextManual ==
    \/ DeployAction({1, 2})
    \/ PauseAction
    \/ ResumeAction
    \/ PromoteAction
    \/ RollbackAction
    \/ StoreFault(ManualCalls)
    \/ Restart
    \/ Return
    \/ ClockTick

SpecManual == Init /\ [][NextManual]_vars

(* SpecRecovery: two deployments of ConfigS1 one after the other, driven by    *)
(* hand while time passes, with store writes that throw and process restarts  *)

RecoveryCalls ==
    DeployCalls({1}) \cup RedeployCalls({1}) \cup PromoteCalls \cup RollbackCalls

NextRecovery ==
    \/ DeployAction({1})
    \/ RedeployAction({1})
    \/ PromoteAction
    \/ RollbackAction
    \/ StoreFault(RecoveryCalls)
    \/ Restart
    \/ Return
    \/ ClockTick

SpecRecovery == Init /\ [][NextRecovery]_vars

(* SpecRouter: model requests routed while one deployment is promoted through *)
(* its stages, paused or rolled back by hand                                  *)

NextRouter ==
    \/ DeployAction({1, 2})
    \/ PauseAction
    \/ PromoteAction
    \/ RollbackAction
    \/ RouteAction
    \/ Return

SpecRouter == Init /\ [][NextRouter]_vars

(* SpecGateFn: evaluateGate called on its own, on every gate and pair of       *)
(* statistics of the inputs above                                             *)

NextGateFn ==
    \/ GateCall
    \/ Return

SpecGateFn == Init /\ [][NextGateFn]_vars

----------------------------------------------------------------------------
(* Properties *)

\* The operations of the controller (a restart builds a new controller)
ControllerOps == {"deploy", "pause", "resume", "promote", "rollback", "score_update", "poll_failed"}

\* The state the snapshot had when the handler's first transition was requested:
\* startDeployment installs a PENDING snapshot of the new deployment
StartState ==
    IF last.op = "deploy" /\ snapshot.id # last.before.id THEN "PENDING" ELSE last.before.state

\* The transitions of the run that changed the snapshot
AppliedSteps == SelectSeq(last.trace, LAMBDA step : step.applied)

\* The events of the run whose type is in `types`
EventsOf(types) == SelectSeq(last.events, LAMBDA e : e.type \in types)

\* The run neither threw nor had an exception caught by the monitor
RanClean == last.thrown = "none" /\ last.caught = "none"

C1_AllowedPairs ==
    {<<"IDLE", "PENDING">>, <<"PENDING", "STAGE">>, <<"PENDING", "ROLLING_BACK">>,
     <<"STAGE", "STAGE">>, <<"STAGE", "PAUSED">>, <<"STAGE", "ROLLING_BACK">>,
     <<"STAGE", "PROMOTED">>, <<"PAUSED", "STAGE">>, <<"PAUSED", "ROLLING_BACK">>,
     <<"ROLLING_BACK", "ROLLED_BACK">>}

\* C1: within every operation of the controller the snapshot's state changes only
\* along the allowed pairs (a new deployment starts out of IDLE as PENDING); a
\* requested transition outside the pairs changes nothing and ends the operation
\* with an Invalid transition error; nothing leaves ROLLED_BACK or PROMOTED.
C1_AllowedTransitions ==
    last.op \in ControllerOps =>
        /\ (snapshot.id # last.before.id) =>
              /\ last.op = "deploy"
              /\ <<NullSnapshot.state, StartState>> \in C1_AllowedPairs
        /\ \A i \in DOMAIN last.trace :
              LET step == last.trace[i] IN
              /\ step.from = IF i = 1 THEN StartState ELSE last.trace[i - 1].to
              /\ step.applied <=> <<step.from, step.to>> \in C1_AllowedPairs
              /\ ~step.applied =>
                    /\ i = Len(last.trace)
                    /\ last.thrown = "InvalidTransition"
        /\ snapshot.state = IF AppliedSteps = <<>> THEN StartState
                            ELSE AppliedSteps[Len(AppliedSteps)].to
        /\ StartState \in {"ROLLED_BACK", "PROMOTED"} => AppliedSteps = <<>>

\* a transition outside the table was requested and refused
C1_Witness ==
    /\ last.op = "rollback"
    /\ last.thrown = "InvalidTransition"
    /\ last.trace # <<>>
    /\ snapshot = last.before

\* The weight the state of a snapshot calls for
WeightFor(cfg, state, stageIndex, weight) ==
    /\ state \in {"STAGE", "PAUSED"} => weight = Stage(cfg, stageIndex).weight
    /\ state \in {"ROLLING_BACK", "ROLLED_BACK"} => weight = 0
    /\ state = "PROMOTED" => weight = 100

\* C2: the snapshot, and every snapshot an operation passes through, has the canary
\* weight of its stage in STAGE and PAUSED, 0 in ROLLING_BACK and ROLLED_BACK, and
\* 100 in PROMOTED.
C2_CanaryWeight ==
    /\ HasSnapshot(snapshot) =>
          WeightFor(snapshot.config, snapshot.state, snapshot.stageIndex, snapshot.canaryWeight)
    /\ \A i \in DOMAIN AppliedSteps :
          WeightFor(snapshot.config, AppliedSteps[i].to, AppliedSteps[i].stageIndex,
                    AppliedSteps[i].canaryWeight)

\* a score update has advanced the deployment to a later stage
C2_Witness ==
    /\ last.op = "score_update"
    /\ last.before.state = "STAGE"
    /\ snapshot.state = "STAGE"
    /\ snapshot.stageIndex = last.before.stageIndex + 1
    /\ snapshot.canaryWeight > last.before.canaryWeight

\* rollback(reason) ran: called through the API, or by onScoreUpdate
RollbackRan ==
    \/ last.op = "rollback"
    \/ last.op = "score_update" /\ last.decision.rollback

\* C3: a rollback from PENDING, STAGE or PAUSED that returns normally has moved the
\* snapshot to ROLLING_BACK with weight 0 and from there to ROLLED_BACK with
\* finalState ROLLED_BACK and completedAt set, has emitted rollback_triggered and
\* then deployment_complete{ROLLED_BACK}, and has not passed through STAGE.
C3_RollbackPath ==
    (RollbackRan /\ RanClean /\ last.before.state \in {"PENDING", "STAGE", "PAUSED"}) =>
        /\ Len(last.trace) = 2
        /\ last.trace[1].from = last.before.state
        /\ last.trace[1].to = "ROLLING_BACK" /\ last.trace[1].canaryWeight = 0
        /\ last.trace[1].applied
        /\ last.trace[2].from = "ROLLING_BACK" /\ last.trace[2].to = "ROLLED_BACK"
        /\ last.trace[2].applied
        /\ snapshot.state = "ROLLED_BACK"
        /\ snapshot.finalState = {"ROLLED_BACK"}
        /\ snapshot.completedAt = {now}
        /\ LET tail == EventsOf({"rollback_triggered", "deployment_complete"}) IN
              /\ Len(tail) = 2
              /\ tail[1].type = "rollback_triggered"
              /\ tail[2].type = "deployment_complete" /\ tail[2].info = "ROLLED_BACK"
        /\ \A i \in DOMAIN last.trace : last.trace[i].to # "STAGE"

\* a deployment still PENDING has been rolled back
C3_Witness ==
    /\ last.op = "rollback"
    /\ RanClean
    /\ last.before.state = "PENDING"
    /\ snapshot.state = "ROLLED_BACK"

\* chooseVersion returns baseline whatever the sticky value and the random draw
RoutesBaseline(s) ==
    \A sticky \in {"", "u1", "u2", "u3"} : \A random \in 0..99 :
        ChooseVersion(s, sticky, random).version = "baseline"

\* C4: once the controller's snapshot of a deployment is ROLLING_BACK or
\* ROLLED_BACK, the next snapshot the controller has of that deployment routes
\* every request to baseline.
C4_TrafficStaysCut ==
    [][(/\ snapshot.state \in {"ROLLING_BACK", "ROLLED_BACK"}
        /\ snapshot'.id = snapshot.id) => RoutesBaseline(snapshot')]_vars

\* The stage a score update was evaluated in, and the gates as evaluateGate sees them
EvaluatedStage == Stage(last.before.config, last.before.stageIndex)

GateStatus(i) ==
    EvaluateGate(EvaluatedStage.gates[i], ScoreOf(latestScores, EvaluatedStage.gates[i].scorer),
                 EvaluatedStage.min_samples)

\* A score update reached evaluateStage
Evaluated == last.op = "score_update" /\ last.before.state = "STAGE"

\* The gates that give strong evidence of a regression, and those with a score drop
Regressing ==
    {i \in DOMAIN EvaluatedStage.gates :
        /\ GateStatus(i).status = "failing"
        /\ GateStatus(i).pValue # {}
        /\ \A p \in GateStatus(i).pValue : p < 10}

Dropping ==
    {i \in DOMAIN EvaluatedStage.gates :
        GateStatus(i).baselineMean - GateStatus(i).canaryMean
            > Configs[last.before.config].rollback.on_score_drop}

\* errors / total > on_error_rate, over the canary rows the monitor counted
ErrorRateHigh ==
    /\ last.decision.rate.total > 0
    /\ last.decision.rate.errors * 100
          > Configs[last.before.config].rollback.on_error_rate * last.decision.rate.total

\* The reason the rollback rules give, in their order of priority
ExpectedReason ==
    IF Regressing # {}
    THEN {"score_regression:" \o EvaluatedStage.gates[FirstOf(Regressing)].scorer}
    ELSE IF Dropping # {}
    THEN {"absolute_drop:" \o EvaluatedStage.gates[FirstOf(Dropping)].scorer}
    ELSE IF ErrorRateHigh THEN {"error_rate_exceeded"}
    ELSE {}

\* The score update moved the deployment to its next stage or to PROMOTED
Advanced ==
    \E i \in DOMAIN last.trace :
        last.trace[i].applied /\ last.trace[i].to \in {"STAGE", "PROMOTED"}

C6_RollbackReason ==
    Evaluated =>
        /\ last.decision.reason = ExpectedReason
        /\ last.decision.rollback <=> ExpectedReason # {}
        /\ ExpectedReason # {} =>
              /\ snapshot.state = "ROLLED_BACK"
              /\ snapshot.reason = ExpectedReason

\* a regression won over a score drop and an error rate that were present too
C6_Witness ==
    /\ Evaluated
    /\ Regressing # {} /\ Dropping # {} /\ ErrorRateHigh
    /\ snapshot.state = "ROLLED_BACK"
    /\ snapshot.reason = {"score_regression:Q"}

\* C7: a score update under which every gate of the stage is insufficient_data and
\* the error rate is within on_error_rate emits gate_status with next_action hold
\* and leaves the snapshot as it was.
C7_InsufficientDataHolds ==
    (/\ Evaluated
     /\ \A i \in DOMAIN EvaluatedStage.gates : GateStatus(i).status = "insufficient_data"
     /\ ~ErrorRateHigh) =>
        /\ \A i \in DOMAIN last.events :
              last.events[i].type = "gate_status" => last.events[i].info = "hold"
        /\ last.trace = <<>>
        /\ snapshot = last.before

\* C8: in scenario S1, when score updates under which the gates pass keep arriving
\* at the deployed controller, the deployment reaches PROMOTED.
C8_EventuallyPromoted ==
    []<>(Evaluated /\ RanClean /\ latestScores \in HealthyScores)
        => <>(snapshot.state = "PROMOTED")

\* C9: a transition whose store write fails surfaces the error, leaves the snapshot
\* as it was before the transition and emits no event for it; the snapshot always
\* equals the persisted row of its deployment.
C9_FailedWriteAborts ==
    /\ last.fault \in {"updateDeployment", "recordTransition"} =>
          /\ "StoreFatal" \in {last.thrown, last.caught}
          /\ snapshot = last.preFail
          /\ EventsOf({"paused", "resumed", "stage_change", "rollback_triggered",
                       "deployment_complete"}) = <<>>
    /\ HasSnapshot(snapshot) => RowMatches(store, snapshot)

\* C10: every event is emitted while the row of its deployment equals the snapshot.
C10_EventsSeePersistedState ==
    \A i \in DOMAIN last.events : last.events[i].synced

\* C11: rollback() called on a ROLLING_BACK snapshot, with no store write failing,
\* returns normally and leaves the snapshot ROLLED_BACK.
C11_RollbackRetryCompletes ==
    (/\ last.op = "rollback"
     /\ last.before.state = "ROLLING_BACK"
     /\ last.fault = "none") =>
        /\ last.thrown = "none"
        /\ snapshot.state = "ROLLED_BACK"

\* C12: promote() on a PAUSED snapshot, forced or not and with no store write
\* failing, returns normally; it leaves the snapshot in STAGE at the next stage index
\* when there is a next stage and PROMOTED when the paused stage is the last one.
C12_PromoteWhilePaused ==
    (/\ last.op = "promote"
     /\ last.before.state = "PAUSED"
     /\ last.fault = "none") =>
        /\ last.thrown = "none"
        /\ IF last.before.stageIndex + 1 < StageCount(last.before.config)
           THEN /\ snapshot.state = "STAGE"
                /\ snapshot.stageIndex = last.before.stageIndex + 1
           ELSE snapshot.state = "PROMOTED"

\* The decision evaluateStage gives in the current state, on the latest scores and
\* the error rate of the attached monitor
DecisionNow ==
    EvaluateStage(snapshot, latestScores,
                  IF monitor.attached
                  THEN [errors |-> monitor.canaryErrors, total |-> monitor.canaryTotal]
                  ELSE [errors |-> 0, total |-> 0],
                  now)

\* The run refused the call: an error, and the snapshot, the store and the event
\* stream as they were
Refused(c) ==
    /\ c.thrown = "Error"
    /\ c.snapshot = snapshot /\ c.store = store /\ c.events = <<>> /\ c.trace = <<>>

\* The run moved the deployment to its next stage, or to PROMOTED from the last one
AdvancedBy(c) ==
    /\ c.thrown = "none"
    /\ IF snapshot.stageIndex + 1 < StageCount(snapshot.config)
       THEN c.snapshot.state = "STAGE" /\ c.snapshot.stageIndex = snapshot.stageIndex + 1
       ELSE c.snapshot.state = "PROMOTED"

\* C13: whenever a handler may run, promote(false) on a STAGE snapshot advances the
\* deployment when the decision on the current stage is auto_promote and otherwise
\* is refused with the snapshot, the store and the events unchanged; promote(true)
\* on a STAGE snapshot advances it; promote in a state other than STAGE and PAUSED
\* is refused and changes nothing.
C13_PromoteGuard ==
    last = Idle =>
        \A call \in PromoteCalls :
            Bind(Run(call, 0), LAMBDA c :
                CASE snapshot.state = "STAGE" /\ ~call.force ->
                        IF DecisionNow.nextAction = "auto_promote"
                        THEN AdvancedBy(c) ELSE Refused(c)
                  [] snapshot.state = "STAGE" /\ call.force -> AdvancedBy(c)
                  [] snapshot.state = "PAUSED" -> TRUE
                  [] OTHER -> Refused(c))

\* promote without force was refused in STAGE: the gates were not passing
C13_Witness ==
    /\ last.op = "promote"
    /\ last.before.state = "STAGE"
    /\ last.thrown = "Error"
    /\ snapshot = last.before
    /\ last.events = <<>>

\* a STAGE snapshot on which promote without force is due
PromoteDueNow ==
    last = Idle /\ snapshot.state = "STAGE" /\ DecisionNow.nextAction = "auto_promote"

\* The step is a run of `op` in which no store write failed
StepOf(op) == last = Idle /\ last'.op = op /\ last'.fault = "none"

\* The step's run was refused: an error, and nothing changed or emitted
StepRefused ==
    /\ last'.thrown = "Error"
    /\ snapshot' = snapshot /\ store' = store
    /\ last'.trace = <<>> /\ last'.events = <<>>

C15_NoEvaluationOutsideStage ==
    (/\ last = Idle
     /\ snapshot.state # "STAGE"
     /\ monitor.attached /\ monitor.running) =>
        \A call \in PollCalls(ScoreInputs, RowInputs) :
            Bind(Run(call, 0), LAMBDA c :
                /\ c.snapshot = snapshot
                /\ c.store = store
                /\ c.trace = <<>>
                /\ \A i \in DOMAIN c.events :
                      c.events[i].type \notin {"score_update", "gate_status", "stage_change",
                                               "rollback_triggered", "deployment_complete"}
                /\ c.latestScores = call.scores
                /\ c.thrown = "none")

\* a paused deployment received scores that would roll a running stage back
C15_Witness ==
    /\ last.op = "score_update"
    /\ last.before.state = "PAUSED"
    /\ latestScores = <<ScoreEntry(10, 90, 2, 83, 5)>>
    /\ snapshot = last.before
    /\ last.trace = <<>>

\* The operations on a deployment that exists
DeploymentOps == {"pause", "resume", "promote", "rollback", "score_update"}

\* stageIndex before the run (0) and after its i-th applied transition
StageIndexAt(i) == IF i = 0 THEN last.before.stageIndex ELSE AppliedSteps[i].stageIndex

\* The i-th applied transition is a stage advance: promote or auto-promotion to STAGE
IsAdvance(i) ==
    /\ last.op \in {"promote", "score_update"}
    /\ AppliedSteps[i].to = "STAGE"

\* C16: in every pause, resume, promote, rollback and score_update, with or without
\* a failing store write, each transition leaves stageIndex as it was or one higher,
\* it is one higher exactly on a stage advance, and the snapshot ends with the
\* stageIndex of the last transition.
C16_StageIndexMonotone ==
    last.op \in DeploymentOps =>
        /\ \A i \in DOMAIN AppliedSteps :
              /\ StageIndexAt(i) >= StageIndexAt(i - 1)
              /\ StageIndexAt(i) = StageIndexAt(i - 1) + (IF IsAdvance(i) THEN 1 ELSE 0)
        /\ snapshot.id = last.before.id
        /\ snapshot.stageIndex = StageIndexAt(Len(AppliedSteps))

\* a deployment paused in its second stage was resumed there
C16_Witness ==
    /\ last.op = "resume"
    /\ RanClean
    /\ last.before.stageIndex = 1
    /\ snapshot.state = "STAGE"
    /\ snapshot.stageIndex = 1

\* The rows of the deployments table, and those in a state recovery accepts
AllRows(st) == {st.deployments[k] : k \in DOMAIN st.deployments}

LiveRows(st) == {r \in AllRows(st) : r.state \notin {"IDLE", "PROMOTED", "ROLLED_BACK"}}

\* The applied transitions of the run whose updateDeployment went through
PersistedSteps ==
    IF last.fault = "updateDeployment"
    THEN SubSeq(AppliedSteps, 1, Len(AppliedSteps) - 1)
    ELSE AppliedSteps

\* The row of the controller's deployment holds the state, stageIndex and
\* canaryWeight of the last transition of the run that was persisted
RowHoldsLastPersisted ==
    PersistedSteps # <<>> =>
        \A r \in RowsOf(store, snapshot.id) :
            LET step == PersistedSteps[Len(PersistedSteps)] IN
            /\ r.state = step.to
            /\ r.stage_index = step.stageIndex
            /\ r.canary_weight = step.canaryWeight

\* C17: after every run of a handler, with or without a failing store write, the
\* row of its deployment holds the last persisted transition; and a restart adopts
\* no snapshot when no row is in a state other than IDLE, PROMOTED and ROLLED_BACK,
\* and otherwise adopts a row with the latest started_at among those rows, with the
\* row's state, stageIndex, canaryWeight and stageEnteredAt.
C17_RecoversLastPersisted ==
    [][/\ last'.op \notin {"idle", "restart"} => RowHoldsLastPersisted'
       /\ last'.op = "restart" =>
            IF LiveRows(store) = {}
            THEN snapshot' = NullSnapshot
            ELSE \E r \in LiveRows(store) :
                    /\ \A q \in LiveRows(store) : q.started_at <= r.started_at
                    /\ snapshot'.id = r.id
                    /\ snapshot'.state = r.state
                    /\ snapshot'.stageIndex = r.stage_index
                    /\ snapshot'.canaryWeight = r.canary_weight
                    /\ snapshot'.stageEnteredAt = r.stage_entered_at]_vars

\* a restart with two unfinished deployments in the store adopted the later one
C17_Witness ==
    /\ last.op = "restart"
    /\ Cardinality(LiveRows(store)) = 2
    /\ \E r \in LiveRows(store) : r.started_at < snapshot.startedAt
    /\ snapshot.id = 2

\* a restart after a crash between the two transitions of a rollback
C17_WitnessCrash ==
    /\ last.op = "restart"
    /\ last.before.state = "ROLLED_BACK"
    /\ snapshot.state = "ROLLING_BACK"
    /\ snapshot.id = last.before.id

\* C18: a restart that recovers a deployment in STAGE leaves the server with a
\* monitor that is attached to the controller and running, so that score updates
\* can reach the recovered deployment.
C18_MonitorResumesAfterRestart ==
    (last.op = "restart" /\ snapshot.state = "STAGE") =>
        monitor.attached /\ monitor.running

\* C19: within a run no event follows the deployment_complete of the same
\* deployment, and a run that starts on a snapshot already PROMOTED or ROLLED_BACK
\* emits no event for that deployment.
C19_CompleteIsLastEvent ==
    /\ \A i \in DOMAIN last.events : \A j \in DOMAIN last.events :
          (i < j /\ last.events[i].type = "deployment_complete")
              => last.events[j].deployment_id # last.events[i].deployment_id
    /\ last.before.state \in {"PROMOTED", "ROLLED_BACK"} =>
          \A i \in DOMAIN last.events : last.events[i].deployment_id # last.before.id

\* The run left the deployment at a later stage than it found it
StageRose == snapshot.id = last.before.id /\ snapshot.stageIndex > last.before.stageIndex

\* C20: a run that leaves the deployment at a later stage has reset the attached
\* monitor and then emitted stage_change from the old to the new index, after every
\* score_update of the run, which carry the old index; every stage_change is emitted
\* with the monitor's counters at zero; every gate_status directly follows a
\* score_update of the same stageIndex.
C20_StageChangeOrder ==
    /\ StageRose =>
          /\ \E i \in DOMAIN last.events :
                /\ last.events[i].type = "stage_change"
                /\ last.events[i].from = last.before.stageIndex
                /\ last.events[i].to = snapshot.stageIndex
                /\ \A j \in DOMAIN last.events :
                      last.events[j].type = "score_update" =>
                          j < i /\ last.events[j].stageIndex = last.before.stageIndex
          /\ monitor.attached => monitor.canaryTotal = 0 /\ monitor.canaryErrors = 0
    /\ \A i \in DOMAIN last.events :
          /\ last.events[i].type = "stage_change" =>
                /\ last.events[i].stageIndex = last.events[i].to
                /\ last.events[i].canaryTotal = 0
          /\ last.events[i].type = "gate_status" =>
                /\ i > 1
                /\ last.events[i - 1].type = "score_update"
                /\ last.events[i - 1].stageIndex = last.events[i].stageIndex

\* a stage advance whose updateDeployment threw: the snapshot is at the new stage,
\* the monitor still holds the old stage's counters and no stage_change was emitted
C20_AdvanceWithoutReset ==
    /\ StageRose
    /\ last.fault = "updateDeployment"
    /\ monitor.attached /\ monitor.running /\ monitor.canaryTotal > 0
    /\ EventsOf({"stage_change"}) = <<>>

\* C21: whenever a handler may run and the monitor is running, a tick whose query
\* fails, with or without a failing store write, leaves the snapshot, the
\* deployments table and latestScores as they were and requests no transition; the
\* controller emits only monitor_health events with status degraded, two of them
\* when there is a deployment and the store accepts them.
C21_MonitorFailsOpen ==
    (last = Idle /\ monitor.attached /\ monitor.running) =>
        \A call \in PollFailedCalls : \A k \in 0..2 :
            Bind(Run(call, k), LAMBDA c :
                /\ c.snapshot = snapshot
                /\ c.store = store
                /\ c.latestScores = latestScores
                /\ c.trace = <<>>
                /\ \A i \in DOMAIN c.events :
                      c.events[i].type = "monitor_health" /\ c.events[i].info = "degraded"
                /\ (k = 0 /\ HasSnapshot(snapshot)) => Len(c.events) = 2)

\* a tick failed while a stage was running and the deployment stayed in it
C21_Witness ==
    /\ last.op = "poll_failed"
    /\ last.before.state = "STAGE"
    /\ snapshot = last.before
    /\ Len(EventsOf({"monitor_health"})) = 2
    /\ last.trace = <<>>

\* A model request was routed
Routed == last.op = "route"

\* The bucket of the routed request
BucketOf(stickyValue, random) ==
    IF stickyValue # "" THEN StableHash(stickyValue) % 100 ELSE random

\* The snapshot takes canary traffic at all
TakesCanary(s) == HasSnapshot(s) /\ s.state \in {"PENDING", "STAGE", "PAUSED"}

C23_StickyDeterministic ==
    (Routed /\ last.decision.stickyValue # "") =>
        \A random \in 0..99 :
            ChooseVersion(last.before, last.decision.stickyValue, random).version
                = last.decision.routed.version

\* sticky values were routed to canary and to baseline in the same stage
C23_Witness ==
    /\ Routed
    /\ last.before.state = "STAGE" /\ last.before.canaryWeight = 50
    /\ last.decision.stickyValue = "u3"
    /\ last.decision.routed.version = "baseline"
    /\ ChooseVersion(last.before, "u2", last.decision.random).version = "canary"

\* evaluateGate was called; its arguments and what it gave
GateCalled == last.op = "evaluate_gate"

GateArgs == last.decision

\* The comparison check of the gate on the p-value of the call
ComparisonHolds ==
    CASE GateArgs.gate.comparison = "absolute_only" -> TRUE
      [] GateArgs.gate.comparison = "not_worse_than_baseline" ->
            GateArgs.p >= 1000 - GateArgs.gate.confidence
      [] OTHER -> 1000 - GateArgs.p >= GateArgs.gate.confidence

\* C24: evaluateGate returns a result; its status is insufficient_data, with no
\* p-value and both checks false, exactly when the canary count is under
\* min_samples or the baseline count under 10; otherwise it is passing when the
\* canary mean reaches the threshold and the comparison check holds (absolute_only
\* has no p-value) and failing when not.
C24_GateStatus ==
    GateCalled =>
        LET r == GateArgs.result
            short == \/ GateArgs.canaryStats.count < GateArgs.minSamples
                     \/ GateArgs.baselineStats.count < 10
        IN /\ r.thrown = "none"
           /\ r.status = "insufficient_data" <=> short
           /\ short => r.pValue = {} /\ ~r.absoluteCheck /\ ~r.comparisonCheck
           /\ ~short =>
                 /\ r.status = IF GateArgs.canaryStats.average >= GateArgs.gate.threshold
                                  /\ ComparisonHolds
                               THEN "passing" ELSE "failing"
                 /\ GateArgs.gate.comparison = "absolute_only" => r.pValue = {}

\* C25: when either side supplies fewer than 2 raw samples evaluateGate returns a
\* result with status insufficient_data and throws nothing.
C25_NoWelchError ==
    (GateCalled /\ (GateArgs.baselineStats.raw < 2 \/ GateArgs.canaryStats.raw < 2)) =>
        /\ GateArgs.result.thrown = "none"
        /\ GateArgs.result.status = "insufficient_data"

----------------------------------------------------------------------------
(* BTQLClient.query: one call against a backend whose answer to each request *)
(* is one of the response kinds below                                        *)

\* Largest maxRetries of the client configurations explored
MaxRetriesBound == 2

\* What one fetch can come back with: a 200 with a JSON body, a 200 whose body
\* does not parse, HTTP 429, another 4xx, a 5xx, the abort of the timeout timer,
\* a rejected fetch (network failure)
ResponseKinds == {"ok", "badBody", "http429", "http404", "http503", "timeout", "network"}

\* The Error the try block throws on a response (status as an optional field)
ErrorOf(kind) ==
    CASE kind = "http429" -> [name |-> "BTQLError", status |-> {429}]
      [] kind = "http404" -> [name |-> "BTQLError", status |-> {404}]
      [] kind = "http503" -> [name |-> "BTQLError", status |-> {503}]
      [] kind = "timeout" -> [name |-> "AbortError", status |-> {}]
      [] kind = "network" -> [name |-> "TypeError", status |-> {}]
      [] kind = "badBody" -> [name |-> "SyntaxError", status |-> {}]

\* Mutant: every error is retried
IsRetryable_Always(error) == TRUE

IsRetryable(error) ==
    IF error.name = "AbortError" THEN TRUE
    ELSE IF error.name = "BTQLError"
         THEN IF error.status = {} THEN TRUE
              ELSE \E status \in error.status : status = 429 \/ status >= 500
         ELSE TRUE

Min(a, b) == IF a <= b THEN a ELSE b

ComputeBackoffMs(attempt, jitter) == Min(1000 * 2 ^ (attempt - 1), 16000) + jitter

\* The diagnostics of a client that has sent nothing yet
NewDiagnostics ==
    [status |-> "healthy", consecutiveFailures |-> 0, totalRequests |-> 0,
     totalRateLimited |-> 0, lastBackoffMs |-> {}]

\* The loop of query from its `attempt`-th failure on: `sent` lists the kinds of
\* the responses received so far and `slept` the backoffs slept
RECURSIVE QueryLoop(_, _, _, _, _, _, _)
QueryLoop(responses, maxRetries, jitter, attempt, diagnostics, sent, slept) ==
    LET kind == responses[Len(sent) + 1]
        requested == [diagnostics EXCEPT !.totalRequests = @ + 1]
        limited == IF kind = "http429"
                   THEN [requested EXCEPT !.totalRateLimited = @ + 1]
                   ELSE requested
        failures == attempt + 1
        backoff == ComputeBackoffMs(failures, jitter)
    IN IF kind = "ok"
       THEN [returned |-> TRUE, error |-> {}, sent |-> Append(sent, kind), slept |-> slept,
             diagnostics |-> [requested EXCEPT !.consecutiveFailures = 0,
                                               !.status = "healthy"]]
       ELSE IF failures > maxRetries \/ ~IsRetryable(ErrorOf(kind))
            THEN [returned |-> FALSE, error |-> {ErrorOf(kind)},
                  sent |-> Append(sent, kind), slept |-> slept,
                  diagnostics |-> [limited EXCEPT !.consecutiveFailures = @ + 1,
                                                  !.status = "degraded"]]
            ELSE QueryLoop(responses, maxRetries, jitter, failures,
                           [limited EXCEPT !.lastBackoffMs = {backoff}],
                           Append(sent, kind), Append(slept, backoff))

Query(responses, maxRetries, jitter) ==
    QueryLoop(responses, maxRetries, jitter, 0, NewDiagnostics, <<>>, <<>>)

\* The backend's answers to the requests of one call, one more than any
\* configuration explored may send
ResponseInputs == [1..(MaxRetriesBound + 2) -> ResponseKinds]

MaxRetriesInputs == 0..MaxRetriesBound

\* Math.floor(Math.random() * 400) at its extremes
JitterInputs == {0, 399}

QueryCall ==
    /\ last = Idle
    /\ \E responses \in ResponseInputs : \E maxRetries \in MaxRetriesInputs :
       \E jitter \in JitterInputs :
        /\ last' = LastOf("query",
                          [Ctx(snapshot, latestScores, store, monitor, now, 0)
                              EXCEPT !.decision =
                                  [responses |-> responses, maxRetries |-> maxRetries,
                                   jitter |-> jitter,
                                   result |-> Query(responses, maxRetries, jitter)]])
        /\ UNCHANGED <<snapshot, latestScores, store, monitor, now, monitorVars, awaiting>>

(* SpecQuery: query called on its own, under every sequence of responses *)

NextQuery ==
    \/ QueryCall
    \/ Return

SpecQuery == Init /\ [][NextQuery]_vars

QueryCalled == last.op = "query"

QueryResult == last.decision.result

\* The kinds of the responses after which the call sent another request
RetriedKinds ==
    {QueryResult.sent[i] : i \in 1..(Len(QueryResult.sent) - 1)}

\* The bound on requests and the surfacing of a 4xx other than 429
QueryBounded ==
    /\ Len(QueryResult.sent) <= last.decision.maxRetries + 1
    /\ Len(QueryResult.slept) = Len(QueryResult.sent) - 1
    /\ QueryResult.diagnostics.totalRequests = Len(QueryResult.sent)
    /\ ~QueryResult.returned =>
           /\ QueryResult.error = {ErrorOf(QueryResult.sent[Len(QueryResult.sent)])}
           /\ QueryResult.diagnostics.status = "degraded"
    /\ last.decision.responses[1] = "http404" =>
           /\ QueryResult.sent = <<"http404">>
           /\ QueryResult.slept = <<>>
           /\ QueryResult.diagnostics.lastBackoffMs = {}
           /\ ~QueryResult.returned

\* C26 (as amended): query sends another request only after a transport error, a
\* timeout, HTTP 429, HTTP >= 500 or a 200 response whose body does not parse; it
\* sends at most maxRetries + 1 requests and then surfaces the last error; a 4xx
\* other than 429 is surfaced after one request, with no retry and no backoff
C26_RetryPolicy ==
    QueryCalled =>
        /\ RetriedKinds \subseteq {"network", "timeout", "http429", "http503", "badBody"}
        /\ QueryBounded

\* C26 (as stated): the same with retries only after transport errors, timeouts,
\* HTTP 429 and HTTP >= 500
C26_RetriesOnlyListed ==
    QueryCalled =>
        /\ RetriedKinds \subseteq {"network", "timeout", "http429", "http503"}
        /\ QueryBounded

\* A call that used every retry and surfaced the error of the last request
C26_Witness ==
    /\ QueryCalled
    /\ last.decision.maxRetries = 2
    /\ QueryResult.sent = <<"http429", "http503", "timeout">>
    /\ ~QueryResult.returned
    /\ QueryResult.slept = <<1000, 2000>>

----------------------------------------------------------------------------
(* The score monitor polling on its own within one stage *)

controllerVars == <<snapshot, latestScores, store, monitor, now, last>>

\* The record of the tick after a call of poll() with outcome r: a call that
\* sent no query leaves the record of the tick in flight
Polled(op, r) ==
    IF r.inflight = requests
    THEN [tick EXCEPT !.op = op]
    ELSE [tick EXCEPT !.op = op, !.start = scoreMonitor,
                      !.scoredAtStart = {row.id : row \in {t \in traces : t.scored}},
                      !.previous = IF tick.emitted = <<>> THEN "none" ELSE tick.emitted[1].type,
                      !.emitted = r.emitted]

\* start() of a monitor whose timer is not running
StartMonitor ==
    /\ ~scoreMonitor.timer
    /\ LET r == MonitorStart(scoreMonitor, requests)
       IN /\ scoreMonitor' = r.m
          /\ requests' = r.inflight
          /\ tick' = Polled("poll", r)
    /\ UNCHANGED <<traces, controllerVars, awaiting>>

\* stop()
StopMonitor ==
    /\ scoreMonitor.timer
    /\ scoreMonitor' = MonitorStop(scoreMonitor)
    /\ tick' = [tick EXCEPT !.op = "other"]
    /\ UNCHANGED <<requests, traces, controllerVars, awaiting>>

\* The interval timer fires: poll()
TimerTick ==
    /\ scoreMonitor.timer
    /\ LET r == Poll(scoreMonitor, requests)
       IN /\ scoreMonitor' = r.m
          /\ requests' = r.inflight
          /\ tick' = Polled("poll", r)
    /\ UNCHANGED <<traces, controllerVars, awaiting>>

\* The controller enters its next stage at a time no earlier than the rows seen
StageReset ==
    /\ \E stageStart \in CreatedInputs :
           /\ stageStart >= scoreMonitor.baselineWatermark
           /\ stageStart >= scoreMonitor.canaryWatermark
           /\ scoreMonitor' = MonitorResetForStage(scoreMonitor, stageStart)
           /\ tick' = [tick EXCEPT !.op = "other", !.returned = {},
                                   !.stageStart = stageStart]
    /\ UNCHANGED <<requests, traces, controllerVars, awaiting>>

\* The backend answers one of the queries in flight with the rows it holds now
QueryAnswered ==
    \E i \in 1..Len(requests) :
        LET rows == FetchRows(traces, requests[i].version, requests[i].watermark)
            rest == RemoveAt(requests, i)
            r == IF requests[i].version = "baseline"
                 THEN PollBaselineRows(scoreMonitor, rest, rows)
                 ELSE PollCanaryRows(scoreMonitor, rest, rows)
        IN /\ scoreMonitor' = r.m
           /\ requests' = r.inflight
           /\ tick' = [tick EXCEPT !.op = "other", !.emitted = @ \o r.emitted,
                                   !.returned = @ \cup rows]
           /\ UNCHANGED <<traces, controllerVars, awaiting>>

\* One of the queries in flight is rejected (BTQLClient.query throws)
QueryRejected ==
    \E i \in 1..Len(requests) :
        LET r == PollQueryFailed(scoreMonitor, RemoveAt(requests, i))
        IN /\ scoreMonitor' = r.m
           /\ requests' = r.inflight
           /\ tick' = [tick EXCEPT !.op = "other", !.emitted = @ \o r.emitted]
           /\ UNCHANGED <<traces, controllerVars, awaiting>>

\* A request of the deployment is logged, with its score or before it is scored
LogTrace ==
    /\ Cardinality(traces) < MaxTraces
    /\ \E version \in Versions : \E created \in CreatedInputs :
       \E scored \in BOOLEAN : \E error \in (IF version = "canary" THEN BOOLEAN ELSE {FALSE}) :
           traces' = traces \cup {[id |-> Cardinality(traces) + 1, version |-> version,
                                   created |-> created, scored |-> scored, error |-> error]}
    /\ tick' = [tick EXCEPT !.op = "other"]
    /\ UNCHANGED <<scoreMonitor, requests, controllerVars, awaiting>>

\* An online scorer attaches its score to a trace logged without it
ScoreTrace ==
    /\ \E row \in {t \in traces : ~t.scored} :
           traces' = (traces \ {row}) \cup {[row EXCEPT !.scored = TRUE]}
    /\ tick' = [tick EXCEPT !.op = "other"]
    /\ UNCHANGED <<scoreMonitor, requests, controllerVars, awaiting>>

NextMonitor ==
    \/ StartMonitor
    \/ TimerTick
    \/ QueryAnswered
    \/ QueryRejected
    \/ LogTrace
    \/ ScoreTrace

SpecMonitor == Init /\ [][NextMonitor]_vars

(* SpecMonitorStages: the same monitor while the controller advances its stage *)

NextMonitorStages ==
    \/ StartMonitor
    \/ TimerTick
    \/ StageReset
    \/ QueryAnswered
    \/ QueryRejected
    \/ LogTrace
    \/ ScoreTrace

SpecMonitorStages == Init /\ [][NextMonitorStages]_vars

(* SpecMonitorStop: the same monitor within one stage, stopped and started *)

NextMonitorStop ==
    \/ StartMonitor
    \/ StopMonitor
    \/ TimerTick
    \/ QueryAnswered
    \/ QueryRejected
    \/ LogTrace
    \/ ScoreTrace

SpecMonitorStop == Init /\ [][NextMonitorStop]_vars

\* The fields of the monitor that a tick reads and writes
Polling(m) == [m EXCEPT !.timer = FALSE, !.inFlight = FALSE]

\* C27: at most one query of the monitor is in flight, and a call of poll() made
\* while a poll is in flight issues no query and changes no watermark, statistic
\* or counter
C27_TicksNeverOverlap ==
    /\ [](Len(requests) <= 1 /\ (scoreMonitor.inFlight <=> Len(requests) = 1))
    /\ [][tick'.op = "poll" /\ scoreMonitor.inFlight =>
              /\ scoreMonitor'.inFlight
              /\ Polling(scoreMonitor') = Polling(scoreMonitor)
              /\ requests' = requests
              /\ tick'.emitted = tick.emitted]_vars

\* poll() was called while the canary query of the previous call was in flight
C27_Witness ==
    /\ tick.op = "poll"
    /\ scoreMonitor.inFlight
    /\ Len(requests) = 1
    /\ requests[1].version = "canary"
    /\ scoreMonitor.baselineWatermark > StageStartTime

\* The current tick has ended in its catch block
TickFailed == tick.emitted # <<>> /\ tick.emitted[1].type = "error"

\* The current tick has ended with a score_update
ScoreUpdated == tick.emitted # <<>> /\ tick.emitted[1].type = "score_update"

\* C28: a tick one of whose queries failed has emitted error and monitor_health
\* only and has left both watermarks, the statistics and the canary counters
\* as they were when it started
C28_FailedTickChangesNothing ==
    TickFailed =>
        /\ [i \in 1..Len(tick.emitted) |-> tick.emitted[i].type] = <<"error", "monitor_health">>
        /\ Polling(scoreMonitor) = Polling(tick.start)

\* The ids of the rows of the version among a set of rows
IdsOf(rows, version) == {row.id : row \in {r \in rows : r.version = version}}

\* No row was added twice to the statistics, and every canary row returned
\* was counted once in canaryTotal and canaryErrors
CountedOnce ==
    /\ \A id \in DOMAIN scoreMonitor.baselineStats : scoreMonitor.baselineStats[id] = 1
    /\ \A id \in DOMAIN scoreMonitor.canaryStats : scoreMonitor.canaryStats[id] = 1
    /\ scoreMonitor.canaryTotal = Cardinality(IdsOf(tick.returned, "canary"))
    /\ scoreMonitor.canaryErrors = Cardinality(IdsOf({r \in tick.returned : r.error}, "canary"))

\* C29 (as amended): every row the backend has returned since the stage started
\* is counted once in canaryTotal/canaryErrors if it is a canary row and once in
\* the statistics of its version if it was returned with a score, never twice,
\* and the counts of an emitted snapshot are the numbers of distinct rows
\* returned with a score
C29_RowsCountedOnce ==
    /\ CountedOnce
    /\ DOMAIN scoreMonitor.baselineStats = IdsOf({r \in tick.returned : r.scored}, "baseline")
    /\ DOMAIN scoreMonitor.canaryStats = IdsOf({r \in tick.returned : r.scored}, "canary")
    /\ ScoreUpdated =>
           /\ tick.emitted[1].scores.baselineN =
                  Cardinality(IdsOf({r \in tick.returned : r.scored}, "baseline"))
           /\ tick.emitted[1].scores.canaryN =
                  Cardinality(IdsOf({r \in tick.returned : r.scored}, "canary"))

\* C29 (as stated): every row the backend has returned since the stage started
\* is in the statistics of its version exactly once, and the counts of an
\* emitted snapshot are the numbers of distinct rows returned
C29_EveryRowCounted ==
    /\ CountedOnce
    /\ DOMAIN scoreMonitor.baselineStats = IdsOf(tick.returned, "baseline")
    /\ DOMAIN scoreMonitor.canaryStats = IdsOf(tick.returned, "canary")
    /\ ScoreUpdated =>
           /\ tick.emitted[1].scores.baselineN = Cardinality(IdsOf(tick.returned, "baseline"))
           /\ tick.emitted[1].scores.canaryN = Cardinality(IdsOf(tick.returned, "canary"))

\* A tick that started with one canary row counted has emitted a snapshot with two
C29_Witness ==
    /\ ScoreUpdated
    /\ tick.start.canaryTotal = 1
    /\ tick.emitted[1].scores.canaryN = 2
    /\ scoreMonitor.canaryTotal = 2

\* The rows that an earlier query returned without their score and that had
\* been scored when the current tick started
ScoredSinceFetched ==
    {row \in traces : /\ row.id \in tick.scoredAtStart
                      /\ \E r \in tick.returned : r.id = row.id /\ ~r.scored}

\* C30: when a tick has ended with a score_update, every trace that an earlier
\* tick had fetched without its score and that was scored before this tick
\* started is in the running statistics of its version
C30_SlowScoreCounted ==
    ScoreUpdated =>
        \A row \in ScoredSinceFetched :
            row.id \in DOMAIN (IF row.version = "baseline" THEN scoreMonitor.baselineStats
                               ELSE scoreMonitor.canaryStats)

\* C40: the snapshot of the controller holds completedAt and finalState exactly
\* when its state is PROMOTED or ROLLED_BACK, and finalState is then that state
C40_CompletionFields ==
    HasSnapshot(snapshot) =>
        /\ snapshot.completedAt # {} <=> snapshot.state \in {"PROMOTED", "ROLLED_BACK"}
        /\ snapshot.finalState # {} <=> snapshot.state \in {"PROMOTED", "ROLLED_BACK"}
        /\ snapshot.finalState \subseteq {snapshot.state}

\* A rollback whose first transition could not be written has left the
\* controller in ROLLING_BACK, with neither field set
C40_Witness ==
    /\ HasSnapshot(snapshot)
    /\ snapshot.state = "ROLLING_BACK"
    /\ last.op = "rollback"
    /\ last.thrown # "none"
    /\ snapshot.completedAt = {}
    /\ snapshot.finalState = {}

\* A deployment promoted through its last stage holds both fields
C40_WitnessPromoted ==
    /\ HasSnapshot(snapshot)
    /\ snapshot.state = "PROMOTED"
    /\ snapshot.finalState = {"PROMOTED"}
    /\ snapshot.completedAt # {}

\* The largest created timestamp among the rows of the version returned since
\* the stage started, or the stage start when there is none
LatestReturned(version) ==
    LET times == {tick.stageStart} \cup
                 {row.created : row \in {r \in tick.returned : r.version = version}}
    IN CHOOSE latest \in times : \A time \in times : time <= latest

\* A step other than resetForStage
WithinStage == tick'.stageStart = tick.stageStart /\ tick.returned \subseteq tick'.returned

\* C32: within a stage no watermark decreases, and each watermark is the larger
\* of the stage start and the created timestamps of the rows consumed for its
\* version, so it is at least the created timestamp of every such row
C32_WatermarksMonotone ==
    /\ [](/\ scoreMonitor.baselineWatermark = LatestReturned("baseline")
          /\ scoreMonitor.canaryWatermark = LatestReturned("canary"))
    /\ [][WithinStage =>
              /\ scoreMonitor'.baselineWatermark >= scoreMonitor.baselineWatermark
              /\ scoreMonitor'.canaryWatermark >= scoreMonitor.canaryWatermark]_vars

\* A successful tick that started with its canary watermark at 1 has moved it to 2
C32_Witness ==
    /\ ScoreUpdated
    /\ tick.start.canaryWatermark = 1
    /\ scoreMonitor.canaryWatermark = 2
    /\ scoreMonitor.canaryTotal = 2

\* The tick before the current one ended in its catch block
PreviousTickFailed == tick.previous = "error"

\* C39: the in-flight marker is clear when a tick has ended, with a score_update
\* or in its catch block, and a call of poll() after a tick that failed sends
\* the baseline query of a new tick
C39_FailedTickClearsInFlight ==
    /\ [](TickFailed \/ ScoreUpdated => ~scoreMonitor.inFlight /\ requests = <<>>)
    /\ [][TickFailed /\ tick'.op = "poll" =>
              /\ scoreMonitor'.inFlight
              /\ requests' = <<BTQLRequest("baseline", scoreMonitor.baselineWatermark)>>
              /\ tick'.previous = "error"]_vars

\* A tick is in flight after the one before it failed
C39_Witness ==
    /\ PreviousTickFailed
    /\ tick.op = "poll"
    /\ scoreMonitor.inFlight
    /\ Len(requests) = 1

\* C31: once stop() has returned the monitor emits nothing and changes neither
\* its watermarks nor its statistics or counters, until it is started again
C31_StopIsFinal ==
    [][~scoreMonitor.timer /\ ~scoreMonitor'.timer =>
           /\ Polling(scoreMonitor') = Polling(scoreMonitor)
           /\ tick'.emitted = tick.emitted]_vars

\* The rows of the version that belong to the current stage
StageRows(version) ==
    {row.id : row \in {r \in traces : r.version = version /\ r.created > tick.stageStart}}

\* C33: the statistics and the canary counters hold rows of the current stage
\* only, those created after the time of the last resetForStage
C33_NewStageRowsOnly ==
    /\ DOMAIN scoreMonitor.baselineStats \subseteq StageRows("baseline")
    /\ DOMAIN scoreMonitor.canaryStats \subseteq StageRows("canary")
    /\ scoreMonitor.canaryTotal <= Cardinality(StageRows("canary"))

\* A handler has just moved the deployment to a later stage: no score_update of
\* that stage has been handled yet
StageJustEntered == StageRose /\ snapshot.state = "STAGE"

\* C35: promote(false) called on a stage that has been entered and for which
\* no score_update has been received yet is refused
C35_PromoteNeedsStageScores ==
    StageJustEntered =>
        Bind(Promote(Ctx(snapshot, latestScores, store, monitor, now, 0), FALSE), LAMBDA c :
            Refused(c))

\* The deployment rows of the store in a state other than IDLE, PROMOTED, ROLLED_BACK
NonTerminalRows ==
    {k \in DOMAIN store.deployments :
        store.deployments[k].state \notin {"IDLE", "PROMOTED", "ROLLED_BACK"}}

\* C36: at most one deployment row of the store is in a non-terminal state, and
\* when the newest deployment has completed getActiveDeployment returns no row
C36_OneActiveRow ==
    /\ Cardinality(NonTerminalRows) <= 1
    /\ (/\ HasSnapshot(snapshot)
        /\ snapshot.state \in {"PROMOTED", "ROLLED_BACK"}
        /\ RowMatches(store, snapshot)
        /\ snapshot.id = Len(store.deployments))
       => ActiveRows(store) = {}

----------------------------------------------------------------------------
(* The handlers of the proxy server that await: a model request holds the    *)
(* snapshot it read while it awaits its body, a poll of a monitor holds the  *)
(* deployment its monitor was created for while it awaits its queries        *)

\* Most model requests awaiting their body at once
MaxModelRequests == 1

ModelRequest(s) == [kind |-> "model_request", snapshot |-> s, deployment |-> s.id]

MonitorPoll(id) == [kind |-> "poll", snapshot |-> NullSnapshot, deployment |-> id]

Awaiting(kind) == {h \in awaiting : h.kind = kind}

\* handleModelRequest up to `await c.req.json()`: the snapshot is read first
RequestArrives ==
    /\ last = Idle
    /\ HasSnapshot(snapshot)
    /\ Cardinality(Awaiting("model_request")) < MaxModelRequests
    /\ awaiting' = awaiting \cup {ModelRequest(snapshot)}
    /\ UNCHANGED <<snapshot, latestScores, store, monitor, now, last, monitorVars>>

\* handleModelRequest from the body on: chooseVersion on the snapshot it holds
RequestRouted ==
    /\ last = Idle
    /\ \E h \in Awaiting("model_request") :
       \E stickyValue \in StickyValues : \E random \in RandomDraws :
           /\ last' = LastOf("model_request",
                             [Ctx(snapshot, latestScores, store, monitor, now, 0)
                                 EXCEPT !.decision =
                                     [held |-> h.snapshot, stickyValue |-> stickyValue,
                                      random |-> random,
                                      routed |-> ChooseVersion(h.snapshot, stickyValue, random)]])
           /\ awaiting' = awaiting \ {h}
    /\ UNCHANGED <<snapshot, latestScores, store, monitor, now, monitorVars>>

(* SpecProxy: model requests served while one deployment is promoted or rolled *)
(* back by hand                                                                *)

NextProxy ==
    \/ DeployAction({1})
    \/ PromoteAction
    \/ RollbackAction
    \/ RequestArrives
    \/ RequestRouted
    \/ Return

SpecProxy == Init /\ [][NextProxy]_vars

\* C37: a model request routed while the controller is in ROLLING_BACK or
\* ROLLED_BACK goes to the baseline
C37_NoCanaryAfterRollback ==
    (/\ last.op = "model_request"
     /\ HasSnapshot(snapshot)
     /\ snapshot.state \in {"ROLLING_BACK", "ROLLED_BACK"})
    => last.decision.routed.version = "baseline"

----------------------------------------------------------------------------
(* A deployment started while the monitor of the earlier one has a tick in   *)
(* flight.  deploy() stops the earlier monitor, which clears its timer only; *)
(* the listeners attachMonitor put on it stay, so what its tick emits still  *)
(* reaches onScoreUpdate and onMonitorHealth of the controller.              *)

\* The timer of the attached monitor fires: poll() runs up to its first await
PollStarts ==
    /\ last = Idle
    /\ HasSnapshot(snapshot)
    /\ monitor.attached /\ monitor.running
    /\ MonitorPoll(snapshot.id) \notin awaiting
    /\ awaiting' = awaiting \cup {MonitorPoll(snapshot.id)}
    /\ UNCHANGED <<snapshot, latestScores, store, monitor, now, last, monitorVars>>

\* The queries of a tick of the current deployment's monitor settle
PollCompletes(scoreSet, rowSet) ==
    \E h \in Awaiting("poll") :
        /\ HasSnapshot(snapshot) /\ h.deployment = snapshot.id
        /\ \E call \in PollCalls(scoreSet, rowSet) \cup PollFailedCalls :
           \E c \in Outcomes(call, 0) :
               /\ snapshot' = c.snapshot /\ latestScores' = c.latestScores
               /\ store' = c.store /\ monitor' = c.monitor
               /\ last' = LastOf(call.op, c)
        /\ awaiting' = awaiting \ {h}
        /\ UNCHANGED <<now, monitorVars>>

\* The queries of a tick of an earlier deployment's monitor settle: its rows go
\* to its own counters, its events to the listeners of the controller
EarlierPollCompletes(scoreSet) ==
    /\ last = Idle
    /\ \E h \in Awaiting("poll") :
        /\ HasSnapshot(snapshot) /\ h.deployment # snapshot.id
        /\ \E c \in {PollSucceeded(Ctx(snapshot, latestScores, store, monitor, now, 0),
                                   scores, NoRows) : scores \in scoreSet}
                    \cup {PollFailed(Ctx(snapshot, latestScores, store, monitor, now, 0))} :
               /\ snapshot' = c.snapshot /\ latestScores' = c.latestScores
               /\ store' = c.store /\ monitor' = c.monitor
               /\ last' = LastOf("earlier_poll", c)
        /\ awaiting' = awaiting \ {h}
        /\ UNCHANGED <<now, monitorVars>>

NextRedeploy ==
    \/ DeployAction({2})
    \/ RedeployAction({2})
    \/ PollStarts
    \/ PollCompletes(CoarseScores, CleanRows)
    \/ EarlierPollCompletes(CoarseScores)
    \/ Return

SpecRedeploy == Init /\ [][NextRedeploy]_vars

\* C34: a tick of the earlier deployment's monitor that completes after the new
\* deployment started changes neither latestScores nor the snapshot nor the
\* store of the new deployment, and puts no event on the bus under its id
C34_EarlierMonitorIgnored ==
    [][last'.op = "earlier_poll" =>
          /\ latestScores' = latestScores
          /\ snapshot' = snapshot
          /\ store' = store
          /\ last'.events = <<>>]_vars

----------------------------------------------------------------------------
(* Sticky routing while the rollout advances: the deployments of both        *)
(* configurations under pause, resume, promote and rollback, with requests   *)
(* routed in every state                                                     *)

NextSticky ==
    \/ DeployAction({1, 2})
    \/ PauseAction
    \/ ResumeAction
    \/ PromoteAction
    \/ RollbackAction
    \/ RouteAction
    \/ Return

SpecSticky == Init /\ [][NextSticky]_vars

\* The snapshot is one of a rollout in progress
RollingOut(s) == HasSnapshot(s) /\ s.state \in {"STAGE", "PAUSED"}

\* C38: while a deployment stays in STAGE or PAUSED, a sticky value that
\* chooseVersion sends to canary before a step of the controller is sent to
\* canary after it, whatever the random draws: from stage to stage a sticky
\* user never goes from canary back to baseline
C38_StickyCanaryStays ==
    [][(RollingOut(snapshot) /\ RollingOut(snapshot') /\ snapshot'.id = snapshot.id) =>
          /\ snapshot'.stageIndex >= snapshot.stageIndex
          /\ \A stickyValue \in StickyValues \ {""} : \A r1, r2 \in RandomDraws :
                 ChooseVersion(snapshot, stickyValue, r1).version = "canary"
                     => ChooseVersion(snapshot', stickyValue, r2).version = "canary"]_vars

\* A sticky request is routed to canary in a stage after the first, to which
\* the rollout advanced from a stage where its bucket was below the weight too
C38_Witness ==
    /\ Routed /\ last.decision.stickyValue = "u1"
    /\ last.decision.routed.version = "canary"
    /\ RollingOut(snapshot) /\ snapshot.stageIndex >= 1
    /\ StableHash("u1") % 100 < Stage(snapshot.config, 0).weight

====
